---- MODULE Spec2Model ----
(***************************************************************************)
(* The tobio dashboard's video player (VideoPlayer) and the parts of the   *)
(* Dashboard that drive it: the calibration handles, the overlay redraw,   *)
(* the redraw scheduling and the external seek request.                    *)
(*                                                                         *)
(* One action is one browser task: an event handler together with the      *)
(* React render and the effects that the handler's state updates cause.    *)
(* The one update that React defers to a later task (setLoading(true),     *)
(* issued from inside a passive effect) is the action LoadingRender.       *)
(*                                                                         *)
(* Time is counted in units of 1/30 s (one frame at the default 30 fps).   *)
(***************************************************************************)
EXTENDS Integers, Sequences, FiniteSets, TLC

(***************************************************************************)
(* Bounds of the model.                                                    *)
(***************************************************************************)
\* pointer-moves explored per behaviour
MaxMoves == 2
\* a pointer offset far outside every overlay box explored (CSS px)
MaxPointer == 9
\* media positions explored: 0..MaxTime (units of 1/30 s)
MaxTime == 4
\* pending "clear the seek request" timers explored
MaxTimers == 2
\* container sides explored by the redraw: 0..MaxContainer (CSS px)
MaxContainer == 3
\* analysis requests explored per behaviour
MaxRequests == 2
\* media positions inside one frame explored: 0/SubFrames .. (SubFrames-1)/SubFrames
SubFrames == 2

(***************************************************************************)
(* Program constants.                                                      *)
(***************************************************************************)
\* 0.1 s, in units of 1/30 s
SeekEpsilon == 3
\* the first corner's x below which the corners count as normalized
NormalizedBelow == 2

Null == -1

(***************************************************************************)
(* JavaScript numbers: exact rationals, NaN and the two infinities.        *)
(***************************************************************************)
RECURSIVE Gcd(_, _)
Gcd(a, b) == IF b = 0 THEN a ELSE Gcd(b, a % b)

Abs(a) == IF a < 0 THEN -a ELSE a

Sign(a) == IF a < 0 THEN -1 ELSE IF a > 0 THEN 1 ELSE 0

Rat(n, d) ==
    LET g == Gcd(Abs(n), Abs(d))
        s == IF d < 0 THEN -1 ELSE 1
    IN  [k |-> "num", n |-> (s * n) \div g, d |-> (s * d) \div g]

Num(i) == [k |-> "num", n |-> i, d |-> 1]

NaN == [k |-> "nan", n |-> 0, d |-> 1]

Inf(s) == [k |-> "inf", n |-> s, d |-> 1]

IsNum(v) == v.k = "num"

IsNaN(v) == v.k = "nan"

\* a / b
Div(a, b) ==
    IF IsNaN(a) \/ IsNaN(b) THEN NaN
    ELSE IF IsNum(b)
         THEN IF b.n = 0
              THEN IF a.n = 0 THEN NaN ELSE Inf(Sign(a.n))
              ELSE IF IsNum(a) THEN Rat(a.n * b.d, a.d * b.n)
                               ELSE Inf(Sign(a.n) * Sign(b.n))
         ELSE IF IsNum(a) THEN Num(0) ELSE NaN

\* a * b
Mul(a, b) ==
    IF IsNaN(a) \/ IsNaN(b) THEN NaN
    ELSE IF IsNum(a) /\ IsNum(b) THEN Rat(a.n * b.n, a.d * b.d)
    ELSE IF a.n = 0 \/ b.n = 0 THEN NaN
    ELSE Inf(Sign(a.n) * Sign(b.n))

\* a - b, for finite a and b
Sub(a, b) == Rat(a.n * b.d - b.n * a.d, a.d * b.d)

\* a + b, for finite a and b
Add(a, b) == Rat(a.n * b.d + b.n * a.d, a.d * b.d)

\* Math.floor(v), for finite v
Floor(v) == v.n \div v.d

\* Math.abs(v), for finite v
MathAbs(v) == Rat(Abs(v.n), v.d)

\* null where a number is expected
JsNull == [k |-> "null", n |-> 0, d |-> 1]

\* a < b (false when either is NaN)
Lt(a, b) ==
    IF IsNaN(a) \/ IsNaN(b) THEN FALSE
    ELSE IF IsNum(a) /\ IsNum(b) THEN a.n * b.d < b.n * a.d
    ELSE IF IsNum(a) THEN b.n > 0
    ELSE IF IsNum(b) THEN a.n < 0
    ELSE a.n < b.n

\* Math.min(a, b) and Math.max(a, b): NaN when either argument is NaN
MathMin(a, b) == IF IsNaN(a) \/ IsNaN(b) THEN NaN ELSE IF Lt(b, a) THEN b ELSE a

MathMax(a, b) == IF IsNaN(a) \/ IsNaN(b) THEN NaN ELSE IF Lt(a, b) THEN b ELSE a

\* the conversion of an assignment to canvas.width / canvas.height
\* (an unsigned long: truncated, NaN and the infinities give 0)
ToUnsignedLong(v) == IF IsNum(v) /\ v.n >= 0 THEN v.n \div v.d ELSE 0

(***************************************************************************)
(* State.                                                                  *)
(***************************************************************************)
VARIABLES
    \* Dashboard state (CsvModal.tsx)
    metadata,             \* videoMetadata: [width, height]
    corners,              \* editableCourtCorners: a sequence of points <<x, y>>
    confirmed,            \* courtLinesConfirmed
    loading,              \* loading, as rendered: the player is mounted iff ~loading
    loadingQueued,        \* setLoading(true) issued by the analysis effect, not yet rendered
    analysis,             \* the analysis request: "idle", "pending", "settled"
    dataLoaded,           \* the analysis data (ball, action, player arrays) is set
    showCourtTracking,
    externalSeekSeconds,  \* Null or a time
    seekTimers,           \* pending setTimeout(() => setExternalSeekSeconds(null), 250)
    currentFrame,         \* Dashboard's currentFrame (set through onFrameChange)
    isPlayerPlaying,      \* Dashboard's isPlayerPlaying (set through onPlayStateChange)
    serverData,           \* what the analysis service answers for this video
    ballTrackingData,     \* per frame: <<>> (null) or a box <<x1, y1, x2, y2>>
    actionDetections,     \* a sequence of [action, start_frame, end_frame]
    ball3dPositions,      \* [supplied, samples]: per frame <<>> (null) or <<x, y, z>>
    showBallTracking,
    showNetView,
    showBallHeight,
    volleyballEvents,     \* [supplied, list]: the events, not supplied while null
    points,               \* a sequence of [team, time]
    fps,                  \* videoMetadata.fps
    timelineItems,        \* EventViewer's memoized timelineItems
    qualityReq,           \* history: the latest quality change, [id, quality, before]
    playerNames,          \* Dashboard's playerNames: player id -> name
    localMetaPending,     \* onloadedmetadata of the temporary video has not fired yet
    cameraSettings,       \* Dashboard's cameraSettings
    sent,                 \* history: the analysis requests in the order they were
                          \* sent, [cause, settings]; a request's id is its index
    inFlight,             \* the ids of the requests that have not settled yet
    succeeded,            \* history: the ids of the requests whose response was stored
    loadingTimers,        \* pending setTimeout(() => setLoading(false), 500)
    storedFps,            \* history: <<>> or the frame rate of the service's
                          \* video_metadata that was stored last
    cornerSpace,          \* history: the space of the corners as delivered, and the
                          \* space in which each corner was last written
    \* EventViewer state (EventViewer.tsx)
    isDown,               \* the pointer was pressed on the timeline and not yet released
    isDragging,           \* isDraggingRef.current
    startX,               \* the pointer's x at the press
    selectedEventId,      \* <<>> (null) or the id of the selected card
    resetTimers,          \* pending setTimeout(() => isDraggingRef.current = false, 0)
    gesture,              \* history: <<>> or the press whose button is still held
    lastScroll,           \* history: the latest auto-scroll, <<>> when there was none
    lastClick,            \* history: the latest click on a card, <<>> when there was none
    \* VideoPlayer state (part_004)
    draggingIdx,          \* Null or 0..3
    isPlaying,
    videoPaused,          \* the media element's paused flag
    pos,                  \* video.currentTime: the whole frames of it
    frac,                 \* video.currentTime: the part of a frame, in 1/SubFrames
    drawNames,            \* the playerNames that the current draw callback closes over
    seekApplied,          \* history: how often the seek effect has set the position of
                          \* this player for the request value now held, at most 2
    netView,              \* the net view's ball marker and height label
    seeking,              \* a seek of the media element has not yet fired "seeked"
    container,            \* canvas.parentElement's clientWidth / clientHeight: [w, h]
    overlay,              \* the style draw gave the overlay layer: [styled, w, h, left, top]
    canvas,               \* the canvas buffer and what the last draw put on it
    loopPending,          \* the render loop's requestAnimationFrame id is pending
    oneShotPending,       \* a requestAnimationFrame(draw) of the effect at line 796 is pending
    \* history
    lastDraw,             \* the latest draw() call: its outcome and the inputs it saw
    ev,                   \* the pointer, media or seek-request handler the latest step ran, else "other"
    drewInHandler,        \* that handler called draw() itself
    preDrag,              \* the corners at the latest press on a handle
    repAtPress,           \* the corners counted as normalized at the latest press
    repUsed,              \* "none", or the representation the latest pointer-move wrote in
    moves,                \* pointer-moves handled so far
    fault                 \* a handler threw

dataVars == <<serverData, ballTrackingData, actionDetections, ball3dPositions,
              showBallTracking, showNetView, showBallHeight, volleyballEvents, points, fps,
              timelineItems>>

requestVars == <<localMetaPending, cameraSettings, sent, inFlight, succeeded, loadingTimers,
                 storedFps>>

sessionVars == <<qualityReq, cornerSpace, playerNames, requestVars>>

dashVars == <<metadata, corners, confirmed, loading, loadingQueued, analysis, dataLoaded,
              showCourtTracking, externalSeekSeconds, seekTimers, currentFrame,
              isPlayerPlaying, dataVars, sessionVars>>

\* EventViewer's state without the record of the auto-scroll
viewerRest == <<isDown, isDragging, startX, selectedEventId, resetTimers, gesture, lastClick>>

viewerVars == <<viewerRest, lastScroll>>

playerVars == <<draggingIdx, isPlaying, videoPaused, pos, frac, seekApplied, drawNames, seeking, container, overlay,
                canvas, netView, loopPending, oneShotPending>>

histVars == <<lastDraw, ev, drewInHandler, preDrag, repAtPress, repUsed, moves, fault>>

vars == <<dashVars, viewerVars, playerVars, histVars>>

(***************************************************************************)
(* The overlay renderer: draw (part_004, lines 526-676).                   *)
(***************************************************************************)
Pt(x, y) == <<x, y>>

\* avgCourtCorners[0][0] < 2
IsNormalized(cs) == Lt(cs[1][1], Num(NormalizedBelow))

\* faulty variant: each buffer side divided by the other source side
GetCanvasScaleCrossed(cw, ch, md) ==
    [scaleX |-> Div(Num(cw), Num(md.height)), scaleY |-> Div(Num(ch), Num(md.width))]

\* getCanvasScale: canvas.width / metadata.width, canvas.height / metadata.height
GetCanvasScale(cw, ch, md) ==
    [scaleX |-> Div(Num(cw), Num(md.width)), scaleY |-> Div(Num(ch), Num(md.height))]

\* the guard of line 539: !aspectRatio || isNaN(aspectRatio)
AspectGuard(aspect) == (IsNum(aspect) /\ aspect.n = 0) \/ IsNaN(aspect)

\* faulty variant: the fit with its comparison turned around
RenderSizeCover(cont, aspect) ==
    LET fitW == Num(cont.w)
        fitH == Div(fitW, aspect)
    IN  IF Lt(fitH, Num(cont.h))
        THEN [w |-> Mul(Num(cont.h), aspect), h |-> Num(cont.h)]
        ELSE [w |-> fitW, h |-> fitH]

\* the letterbox fit of lines 542-548
RenderSize(cont, aspect) ==
    LET fitW == Num(cont.w)
        fitH == Div(fitW, aspect)
    IN  IF Lt(Num(cont.h), fitH)
        THEN [w |-> Mul(Num(cont.h), aspect), h |-> Num(cont.h)]
        ELSE [w |-> fitW, h |-> fitH]

\* the canvas ignores a rectangle or a path point with a coordinate that is
\* not a finite number
Finite(vs) == \A i \in DOMAIN vs : IsNum(vs[i])

\* drawCourtPolygon: the vertices put on the canvas, <<>> when nothing is drawn
DrawCourtPolygon(cs, scaleX, scaleY) ==
    IF Len(cs) # 4 THEN <<>>
    ELSE SelectSeq([i \in 1..4 |-> Pt(Mul(cs[i][1], scaleX), Mul(cs[i][2], scaleY))],
                   Finite)

\* faulty variant: the court polygon drawn without looking at the toggle
CourtLinesIgnoringToggle(show, cs, md, scaleX, scaleY) ==
    IF Len(cs) = 4
    THEN LET drawCorners ==
                 IF IsNormalized(cs)
                 THEN [i \in 1..4 |-> Pt(Mul(cs[i][1], Num(md.width)),
                                         Mul(cs[i][2], Num(md.height)))]
                 ELSE cs
         IN  DrawCourtPolygon(drawCorners, scaleX, scaleY)
    ELSE <<>>

\* lines 583-590: the court polygon of one redraw
CourtLines(show, cs, md, scaleX, scaleY) ==
    IF show /\ Len(cs) = 4
    THEN LET drawCorners ==
                 IF IsNormalized(cs)
                 THEN [i \in 1..4 |-> Pt(Mul(cs[i][1], Num(md.width)),
                                         Mul(cs[i][2], Num(md.height)))]
                 ELSE cs
         IN  DrawCourtPolygon(drawCorners, scaleX, scaleY)
    ELSE <<>>

(***************************************************************************)
(* The per-frame data of draw: the frame indexes (lines 496-512), the ball *)
(* box and the current action (lines 572-611), the net view (613-675).     *)
(***************************************************************************)
\* ballTracksMap: frame -> box, for the entries that are not null
BallTracksMap(ballTracks) ==
    [f \in {i - 1 : i \in {j \in DOMAIN ballTracks : ballTracks[j] # <<>>}}
        |-> ballTracks[f + 1]]

\* faulty variant: a frame keeps the event it already has
SetFramesKeepFirst(m, event) ==
    LET frames == event.start_frame .. event.end_frame
    IN  [f \in (DOMAIN m) \cup frames |-> IF f \in DOMAIN m THEN m[f] ELSE event]

\* lines 506-508: map.set(f, event) for every frame of the event's interval
SetFrames(m, event) ==
    LET frames == event.start_frame .. event.end_frame
    IN  [f \in (DOMAIN m) \cup frames |-> IF f \in frames THEN event ELSE m[f]]

\* actionDetections.forEach from entry i on, m being the map so far
RECURSIVE ActionFrameMapFrom(_, _, _)
ActionFrameMapFrom(acts, i, m) ==
    IF i > Len(acts) THEN m
    ELSE ActionFrameMapFrom(acts, i + 1, SetFrames(m, acts[i]))

\* actionFrameMap: frame -> event
ActionFrameMap(acts) == ActionFrameMapFrom(acts, 1, <<>>)

\* map.get(f): <<value>>, or <<>> for undefined
MapGet(m, f) == IF f \in DOMAIN m THEN <<m[f]>> ELSE <<>>

\* drawBallBox: the rectangle stroked, <<>> when nothing is
DrawBallBox(bbox, scaleX, scaleY) ==
    LET rect == <<Mul(bbox[1], scaleX), Mul(bbox[2], scaleY),
                  Mul(Sub(bbox[3], bbox[1]), scaleX), Mul(Sub(bbox[4], bbox[2]), scaleY)>>
    IN  IF Finite(rect) THEN rect ELSE <<>>

\* faulty variant: the frame is rounded up when the frame after it has a box
BallBoxLookingAhead(showBall, ballTracks, currentFrameInt, scaleX, scaleY) ==
    IF showBall
    THEN LET tracks == BallTracksMap(ballTracks)
             ahead == MapGet(tracks, currentFrameInt + 1)
             ballBbox == IF ahead # <<>> THEN ahead ELSE MapGet(tracks, currentFrameInt)
         IN  IF ballBbox # <<>> THEN DrawBallBox(ballBbox[1], scaleX, scaleY) ELSE <<>>
    ELSE <<>>

\* lines 577-580: the ball box of one redraw
BallBox(showBall, ballTracks, currentFrameInt, scaleX, scaleY) ==
    IF showBall
    THEN LET ballBbox == MapGet(BallTracksMap(ballTracks), currentFrameInt)
         IN  IF ballBbox # <<>> THEN DrawBallBox(ballBbox[1], scaleX, scaleY) ELSE <<>>
    ELSE <<>>

\* faulty variant: the lookup is made for the frame after the current one
CurrentActionNextFrame(acts, currentFrameInt) ==
    MapGet(ActionFrameMap(acts), currentFrameInt + 1)

\* lines 599-611: the current action of one redraw, <<>> when there is none
CurrentAction(acts, currentFrameInt) == MapGet(ActionFrameMap(acts), currentFrameInt)

\* faulty variant: the interpolation starts from the second sample
LerpFromEnd(start, end, t) == Add(end, Mul(Sub(end, start), t))

\* lerp
Lerp(start, end, t) == Add(start, Mul(Sub(end, start), t))

\* m2px, NET_CONFIG.SCALE pixels per metre
M2px(m) == Mul(m, Num(40))

\* NET_MATH.courtStartX = (vbWidth - 9.0 * 40) / 2 with vbWidth = 476.384, and
\* NET_MATH.groundY = 7.0 * 40 - 0.5 * 40
CourtStartX == Rat(7274, 125)

GroundY == Num(260)

\* the net view's elements as React creates them: opacity 0 (lines 985-988)
FreshNetView == [ball |-> 0, label |-> 0, point |-> <<>>,
                 cx |-> Num(0), cy |-> Num(0), r |-> Num(0)]

\* volleyballEvents before the analysis has delivered it
NoEvents == [supplied |-> FALSE, list |-> <<>>]

\* the frame rate set when the local file's metadata loads
LocalFps == 30

\* ball3dPositions before the analysis has delivered it
NotSupplied == [supplied |-> FALSE, samples |-> <<>>]

\* faulty variant: the first coordinate is not looked at
ValidSampleLengthOnly(p) == Len(p) >= 3

\* posCurrent && posCurrent.length >= 3 && posCurrent[0] !== null
ValidSample(p) == Len(p) >= 3 /\ p[1] # JsNull

\* lines 615-675: the net view after one redraw at frame position exactFrame;
\* nv is the net view before it, netMounted says that netBallRef is set
NetViewUpdate(b3, netMounted, showHeight, exactFrame, nv) ==
    IF ~(b3.supplied /\ netMounted) THEN nv
    ELSE LET currentFrameInt == Floor(exactFrame)
             alpha == Sub(exactFrame, Num(currentFrameInt))
             At(j) == IF j + 1 \in DOMAIN b3.samples THEN b3.samples[j + 1] ELSE <<>>
             posCurrent == At(currentFrameInt)
             posNext == IF currentFrameInt + 1 < Len(b3.samples)
                        THEN At(currentFrameInt + 1) ELSE posCurrent
         IN  IF ValidSample(posCurrent)
             THEN LET pt == IF ValidSample(posNext)
                            THEN <<Lerp(posCurrent[1], posNext[1], alpha),
                                   Lerp(posCurrent[2], posNext[2], alpha),
                                   Lerp(posCurrent[3], posNext[3], alpha)>>
                            ELSE SubSeq(posCurrent, 1, 3)
                      depthFactor == MathMax(Num(0), MathMin(Num(1), Div(pt[2], Num(18))))
                  IN  [ball |-> 1,
                       label |-> IF showHeight THEN 1 ELSE 0,
                       point |-> pt,
                       cx |-> Add(CourtStartX, M2px(pt[1])),
                       cy |-> Sub(GroundY, M2px(pt[3])),
                       r |-> Sub(Num(10), Mul(depthFactor, Num(5)))]
             ELSE [nv EXCEPT !.ball = 0, !.label = 0]

\* what draw reads besides the geometry: the data props and their toggles
\* Dashboard's playerTracks (CsvModal.tsx lines 321 and 531): the tracks of
\* the response once it has been stored, frame -> players
PlayerTracks == IF dataLoaded THEN serverData.player_tracks ELSE <<>>

DrawData == [playerTracks |-> PlayerTracks,
             playerNames |-> drawNames,
             ballTracks |-> ballTrackingData,
             actionDetections |-> actionDetections,
             ball3dPositions |-> ball3dPositions,
             showBallTracking |-> showBallTracking,
             showBallHeight |-> showBallHeight,
             netMounted |-> showNetView]

(***************************************************************************)
(* EventViewer (EventViewer.tsx, lines 81-142): the timeline items.        *)
(***************************************************************************)
\* a field the event does not carry
Undefined == [k |-> "undefined", n |-> 0, d |-> 1]

\* the truth value of a number or of a missing field in a condition
Truthy(v) == (v.k = "num" /\ v.n # 0) \/ v.k = "inf"

\* v.toFixed(2), as the number of hundredths printed: the nearest one, the
\* larger of two that are equally near
ToFixed2(v) == Floor(Add(Mul(v, Num(100)), Rat(1, 2)))

\* fps || 30
FpsOr30(f) == IF f = 0 THEN 30 ELSE f

\* lines 89-104: the text of the card's secondary metric
ExtraInfo(event, f) ==
    LET durationSec ==
            ToFixed2(Div(Num(event.end_frame - event.start_frame), Num(FpsOr30(f))))
    IN  IF event.action = "spike" /\ Truthy(event.ball_height_m)
        THEN [shows |-> "ball height", hundredths |-> ToFixed2(event.ball_height_m)]
        ELSE IF event.action = "block" /\ Truthy(event.block_height_m)
        THEN [shows |-> "block height", hundredths |-> ToFixed2(event.block_height_m)]
        ELSE IF event.action = "set" /\ Truthy(event.ball_height_m)
        THEN [shows |-> "ball height", hundredths |-> ToFixed2(event.ball_height_m)]
        ELSE IF event.action = "set" /\ Truthy(event.set_position)
        THEN [shows |-> "position", hundredths |-> ToFixed2(event.set_position)]
        ELSE [shows |-> "duration", hundredths |-> durationSec]

\* lines 82-121: the event cards, in the order of the events
EventItems(rawEvents, f) ==
    [i \in 1..Len(rawEvents) |->
        [type |-> "event",
         id |-> <<"evt", rawEvents[i].start_frame, i - 1>>,
         frameId |-> rawEvents[i].start_frame,
         endFrameId |-> rawEvents[i].end_frame,
         timestamp |-> Div(Num(rawEvents[i].start_frame), Num(FpsOr30(f))),
         extraInfo |-> ExtraInfo(rawEvents[i], f),
         quality |-> rawEvents[i].quality]]

\* faulty variant: every point is counted for the other team
CountPointSwapped(score, point) ==
    IF point.team = 0 THEN [score EXCEPT !.scoreB = @ + 1]
    ELSE [score EXCEPT !.scoreA = @ + 1]

\* lines 126-130: scoreA++ for a point of team 0, scoreB++ for any other
CountPoint(score, point) ==
    IF point.team = 0 THEN [score EXCEPT !.scoreA = @ + 1]
    ELSE [score EXCEPT !.scoreB = @ + 1]

\* lines 123-138 from point i on: the dividers with the running score
RECURSIVE PointItemsFrom(_, _, _)
PointItemsFrom(pts, i, score) ==
    IF i > Len(pts) THEN <<>>
    ELSE LET next == CountPoint(score, pts[i])
         IN  <<[type |-> "point",
                id |-> <<"point", i - 1>>,
                timestamp |-> pts[i].time,
                scoreA |-> next.scoreA,
                scoreB |-> next.scoreB]>> \o PointItemsFrom(pts, i + 1, next)

PointItems(pts) == PointItemsFrom(pts, 1, [scoreA |-> 0, scoreB |-> 0])

\* faulty variant: the comparator with its operands exchanged
CompareTimestampsReversed(a, b) == Sub(b.timestamp, a.timestamp)

\* line 141: the comparator (a, b) => a.timestamp - b.timestamp
CompareTimestamps(a, b) == Sub(a.timestamp, b.timestamp)

\* one step of a stable sort: x goes behind the last item of the sorted
\* sequence that the comparator does not put after x
InsertSorted(sorted, x) ==
    LET notAfter == {j \in DOMAIN sorted : ~Lt(CompareTimestamps(x, sorted[j]), Num(0))}
        at == IF notAfter = {} THEN 0 ELSE CHOOSE j \in notAfter : \A l \in notAfter : l <= j
    IN  SubSeq(sorted, 1, at) \o <<x>> \o SubSeq(sorted, at + 1, Len(sorted))

\* Array.prototype.sort with that comparator: stable, ascending
RECURSIVE SortFrom(_, _, _)
SortFrom(items, i, sorted) ==
    IF i > Len(items) THEN sorted
    ELSE SortFrom(items, i + 1, InsertSorted(sorted, items[i]))

\* timelineItems
TimelineItems(rawEvents, pts, f) ==
    SortFrom(EventItems(rawEvents, f) \o PointItems(pts), 1, <<>>)

\* the timeline of the viewer as Dashboard renders it (CsvModal.tsx lines
\* 588-601): no viewer and no items while the events are null
RenderedTimeline(evs, pts, f) ==
    IF evs.supplied THEN TimelineItems(evs.list, pts, FpsOr30(f)) ELSE <<>>

\* drawPlayerBox, line 426: playerNames[id] || `P${id}`
PlayerLabel(names, id) ==
    IF id \in DOMAIN names /\ names[id] # "" THEN names[id] ELSE <<"P", id>>

\* lines 592-597: the labels of the players of the frame, in their order
\* (the player toggle is on, and the boxes themselves are not modelled)
PlayerBoxes(tracks, frame, names) ==
    IF frame \in DOMAIN tracks
    THEN [i \in 1..Len(tracks[frame]) |-> PlayerLabel(names, tracks[frame][i].player_id)]
    ELSE <<>>

UnstyledOverlay == [styled |-> FALSE, w |-> Num(0), h |-> Num(0),
                    left |-> Num(0), top |-> Num(0)]

\* a fresh canvas element: the default 300 x 150 buffer, nothing drawn
BlankCanvas == [drawn |-> FALSE, width |-> 300, height |-> 150, frame |-> 0,
                polygon |-> <<>>, players |-> <<>>, ball |-> <<>>, action |-> <<>>]

NoDraw == [outcome |-> "none", cw |-> 0, ch |-> 0, mw |-> 0, mh |-> 0,
           show |-> FALSE, ncorners |-> 0, scaleX |-> Num(0), scaleY |-> Num(0)]

\* one call of draw() on a mounted player: the new canvas, overlay style and
\* the record of the call
Draw(md, cont, cs, show, t, cv, ov, d, nv) ==
    LET aspect == Div(Num(md.width), Num(md.height))
    IN  IF AspectGuard(aspect)
        THEN [canvas |-> cv, overlay |-> ov, netView |-> nv,
              last |-> [outcome |-> "skipped", cw |-> cont.w, ch |-> cont.h,
                        mw |-> md.width, mh |-> md.height,
                        show |-> show, ncorners |-> Len(cs),
                        scaleX |-> Num(0), scaleY |-> Num(0)]]
        ELSE LET size == RenderSize(cont, aspect)
                 bufW == ToUnsignedLong(size.w)
                 bufH == ToUnsignedLong(size.h)
                 scale == GetCanvasScale(bufW, bufH, md)
                 currentFrameInt == Floor(t)
             IN  [canvas |-> [drawn |-> TRUE, width |-> bufW, height |-> bufH,
                              frame |-> currentFrameInt,
                              polygon |-> CourtLines(show, cs, md, scale.scaleX, scale.scaleY),
                              players |-> PlayerBoxes(d.playerTracks, currentFrameInt,
                                                      d.playerNames),
                              ball |-> BallBox(d.showBallTracking, d.ballTracks,
                                               currentFrameInt, scale.scaleX, scale.scaleY),
                              action |-> CurrentAction(d.actionDetections, currentFrameInt)],
                  netView |-> NetViewUpdate(d.ball3dPositions, d.netMounted,
                                            d.showBallHeight, t, nv),
                  overlay |-> [styled |-> TRUE, w |-> size.w, h |-> size.h,
                               left |-> Div(Sub(Num(cont.w), size.w), Num(2)),
                               top |-> Div(Sub(Num(cont.h), size.h), Num(2))],
                  last |-> [outcome |-> "drawn", cw |-> cont.w, ch |-> cont.h,
                            mw |-> md.width, mh |-> md.height,
                            show |-> show, ncorners |-> Len(cs),
                            scaleX |-> scale.scaleX, scaleY |-> scale.scaleY]]

(***************************************************************************)
(* The calibration handles (part_004, lines 680-726 and 870-933).          *)
(***************************************************************************)
\* CsvModal.tsx lines 503-506: the player is rendered when nothing is
\* loading and the video's metadata and the corners are there
Mounted == ~loading /\ ~localMetaPending

\* the handles and the Confirm Court Lines button are rendered
\* (lines 871 and 908)
HandlesRendered == Mounted /\ ~confirmed /\ Len(corners) = 4

\* overlayRef.current.getBoundingClientRect(): the size draw styled, or the
\* size of an unstyled block whose children are all absolutely positioned
OverlayRect == IF overlay.styled THEN [w |-> overlay.w, h |-> overlay.h]
               ELSE [w |-> Num(container.w), h |-> Num(0)]

\* Math.max(0, Math.min(1, v))
Clamp01(v) == MathMax(Num(0), MathMin(Num(1), v))

\* lines 685-704: the point for pointer offset p = <<x, y>> from the
\* overlay's corner
DragPoint(p, rect, isNormalized, md) ==
    LET newX == Clamp01(Div(Num(p[1]), rect.w))
        newY == Clamp01(Div(Num(p[2]), rect.h))
    IN  IF isNormalized THEN Pt(newX, newY)
        ELSE Pt(Mul(newX, Num(md.width)), Mul(newY, Num(md.height)))

\* faulty variant: the updater with its index off by one
WriteCornerOffByOne(prev, idx, pt) == [prev EXCEPT ![((idx + 1) % 4) + 1] = pt]

\* lines 706-711: the updater given to setAvgCourtCorners
WriteCorner(prev, idx, pt) == [prev EXCEPT ![idx + 1] = pt]

\* the index of the first event card whose frames contain the frame, 0
\* when there is none (EventViewer.tsx lines 147-149, findIndex)
RECURSIVE FindCurrentFrom(_, _, _)
FindCurrentFrom(items, frame, i) ==
    IF i > Len(items) THEN 0
    ELSE IF /\ items[i].type = "event"
            /\ frame >= items[i].frameId
            /\ frame <= items[i].endFrameId
         THEN i
         ELSE FindCurrentFrom(items, frame, i + 1)

FindCurrent(items, frame) == FindCurrentFrom(items, frame, 1)

\* the guard of line 145: the media is reported playing, no press is in
\* progress, and the scroll container with its cards is rendered
\* (CsvModal.tsx line 588, EventViewer.tsx line 214)
AutoScrollAllowed(playing, down, supplied, items) ==
    playing /\ ~down /\ supplied /\ items # <<>>

\* The auto-scroll effect (EventViewer.tsx lines 144-157), run after a
\* render that changed currentFrame, timelineItems, isDown or isPlaying.  The
\* card is taken to be off-centre, so that line 154 scrolls.
AutoScrollEffect(depsChanged) ==
    LET at == FindCurrent(timelineItems', currentFrame')
    IN  lastScroll' =
            IF /\ depsChanged
               /\ AutoScrollAllowed(isPlayerPlaying', isDown', volleyballEvents'.supplied,
                                    timelineItems')
               /\ at # 0
            THEN <<[card |-> timelineItems'[at].id, frame |-> currentFrame',
                    mediaPlaying |-> ~loading' /\ ~videoPaused', isDown |-> isDown']>>
            ELSE lastScroll

\* the record of the seek effect: a new request value starts a new count
SeekCount(fires) ==
    seekApplied' =
        IF externalSeekSeconds' # externalSeekSeconds
        THEN IF fires THEN 1 ELSE 0
        ELSE IF fires /\ seekApplied < 2 THEN seekApplied + 1 ELSE seekApplied

\* the guard of the external-seek effect, lines 789-790
SeekEffectFires(t, ext) ==
    ext # Null /\ Lt(Num(SeekEpsilon), MathAbs(Sub(t, Num(ext))))

\* video.currentTime * metadata.fps
ExactFrame == Rat(pos * SubFrames + frac, SubFrames)

\* draw() called in this step, on the state the step leaves
DrawNow ==
    LET r == Draw(metadata', container', corners', showCourtTracking', ExactFrame',
                  canvas, overlay, DrawData', netView)
    IN  /\ canvas' = r.canvas
        /\ overlay' = r.overlay
        /\ netView' = r.netView
        /\ lastDraw' = r.last

\* The effects of a mounted player that re-run after a render (lines
\* 770-796): drawChanged says that draw got a new identity, seekChanged that
\* externalSeekSeconds changed, handlerDraws that the handler itself called
\* draw().
AfterRender(drawChanged, seekChanged, handlerDraws) ==
    LET fires == (drawChanged \/ seekChanged) /\ SeekEffectFires(ExactFrame, externalSeekSeconds')
    IN  /\ pos' = IF fires THEN externalSeekSeconds' ELSE pos
        /\ frac' = IF fires THEN 0 ELSE frac
        /\ SeekCount(fires)
        /\ drawNames' = IF drawChanged THEN playerNames' ELSE drawNames
        /\ seeking' = (seeking \/ fires)
        /\ IF fires \/ handlerDraws THEN DrawNow
           ELSE UNCHANGED <<canvas, netView, overlay, lastDraw>>
        /\ oneShotPending' = (oneShotPending \/ drawChanged)
        /\ UNCHANGED loopPending

\* a render of Dashboard passes fresh [] for the missing data arrays
\* (CsvModal.tsx lines 528-531), which gives draw a new identity
DashboardRenderChangesDraw == ~dataLoaded

\* onMouseDown of handle idx (lines 879-882)
MouseDown(idx) ==
    /\ HandlesRendered
    /\ draggingIdx' = idx
    /\ preDrag' = corners
    /\ repAtPress' = IsNormalized(corners)
    /\ repUsed' = "none"
    /\ ev' = "mousedown"
    /\ drewInHandler' = FALSE
    /\ UNCHANGED <<dashVars, viewerVars, isPlaying, videoPaused, pos, frac, seekApplied, drawNames, seeking, container, overlay,
                   canvas, netView, loopPending, oneShotPending, lastDraw, moves, fault>>

\* handleGlobalMove (lines 681-712) and the render it causes
MouseMove(p) ==
    /\ Mounted
    /\ draggingIdx # Null
    /\ moves < MaxMoves
    /\ moves' = moves + 1
    /\ ev' = "mousemove"
    /\ drewInHandler' = FALSE
    /\ UNCHANGED <<dataVars, qualityReq, playerNames, requestVars, viewerVars, metadata, confirmed, loading, loadingQueued, analysis, dataLoaded,
                   showCourtTracking, externalSeekSeconds, seekTimers, currentFrame,
                   isPlayerPlaying, draggingIdx, isPlaying, videoPaused, container,
                   preDrag, repAtPress>>
    /\ IF Len(corners) = 0
       THEN \* avgCourtCorners[0][0] of an empty array throws
            /\ fault' = TRUE
            /\ UNCHANGED <<corners, cornerSpace, repUsed, pos, frac, seekApplied, drawNames, seeking, canvas, netView, overlay, lastDraw,
                           oneShotPending, loopPending>>
       ELSE LET isNormalized == IsNormalized(corners)
                pt == DragPoint(p, OverlayRect, isNormalized, metadata)
            IN  /\ corners' = WriteCorner(corners, draggingIdx, pt)
                /\ repUsed' = IF isNormalized THEN "normalized" ELSE "pixel"
                /\ cornerSpace' = [cornerSpace EXCEPT !.now[draggingIdx + 1] = repUsed']
                /\ fault' = fault
                /\ AfterRender(TRUE, FALSE, FALSE)

\* faulty variant: a release that does not reach the player (a listener on
\* the handle element instead of the window)
MouseUpMissed ==
    /\ Mounted
    /\ draggingIdx # Null
    /\ ev' = "mouseup"
    /\ drewInHandler' = FALSE
    /\ UNCHANGED <<dashVars, viewerVars, playerVars, lastDraw, preDrag, repAtPress, repUsed, moves,
                   fault>>

\* handleGlobalUp (lines 714-716)
MouseUp ==
    /\ Mounted
    /\ draggingIdx # Null
    /\ draggingIdx' = Null
    /\ ev' = "mouseup"
    /\ drewInHandler' = FALSE
    /\ preDrag' = <<>>
    /\ repAtPress' = FALSE
    /\ repUsed' = "none"
    /\ UNCHANGED <<dashVars, viewerVars, isPlaying, videoPaused, pos, frac, seekApplied, drawNames, seeking, container, overlay,
                   canvas, netView, loopPending, oneShotPending, lastDraw, moves, fault>>

\* the Confirm Court Lines button (lines 926-929); the render runs the
\* analysis effect (CsvModal.tsx lines 282-343), which sends the request
\* and issues setLoading(true)
ConfirmClick ==
    /\ HandlesRendered
    /\ confirmed' = TRUE
    /\ analysis' = "pending"
    /\ loadingQueued' = TRUE
    /\ ev' = "other"
    /\ drewInHandler' = FALSE
    /\ UNCHANGED <<dataVars, sessionVars, viewerVars, metadata, corners, loading, dataLoaded, showCourtTracking,
                   externalSeekSeconds, seekTimers, currentFrame, isPlayerPlaying,
                   draggingIdx, isPlaying, videoPaused, container, preDrag, repAtPress,
                   repUsed, moves, fault>>
    /\ AfterRender(DashboardRenderChangesDraw, FALSE, FALSE)

(***************************************************************************)
(* Mounting and unmounting the player (CsvModal.tsx, lines 503-547).       *)
(***************************************************************************)
\* A fresh player is mounted by this step and its effects run: the render
\* loop starts (line 776), the external-seek effect runs against the new
\* media element (lines 787-794) and the effect of line 796 requests a frame.
MountPlayer ==
    LET fires == SeekEffectFires(Num(0), externalSeekSeconds')
    IN  /\ draggingIdx' = Null
        /\ isPlaying' = FALSE
        /\ videoPaused' = TRUE
        /\ pos' = IF fires THEN externalSeekSeconds' ELSE 0
        /\ frac' = 0
        /\ seekApplied' = IF fires THEN 1 ELSE 0
        /\ drawNames' = playerNames'
        /\ seeking' = fires
        /\ IF fires
           THEN LET r == Draw(metadata', container', corners', showCourtTracking',
                              Num(pos'), BlankCanvas, UnstyledOverlay, DrawData', FreshNetView)
                IN  /\ canvas' = r.canvas
                    /\ overlay' = r.overlay
                    /\ netView' = r.netView
                    /\ lastDraw' = r.last
           ELSE /\ canvas' = BlankCanvas
                /\ overlay' = UnstyledOverlay
                /\ netView' = FreshNetView
                /\ lastDraw' = lastDraw
        /\ loopPending' = TRUE
        /\ oneShotPending' = TRUE

\* The player is unmounted by this step: its state and its media element
\* are dropped, the window listeners are removed (line 722) and the render
\* loop's frame is cancelled (line 777).  The frame requested at line 796
\* has no cleanup.
UnmountPlayer ==
    /\ draggingIdx' = Null
    /\ isPlaying' = FALSE
    /\ videoPaused' = TRUE
    /\ pos' = 0
    /\ frac' = 0
    /\ seekApplied' = 0
    /\ drawNames' = drawNames
    /\ seeking' = FALSE
    /\ canvas' = BlankCanvas
    /\ overlay' = UnstyledOverlay
    /\ netView' = FreshNetView
    /\ loopPending' = FALSE
    /\ UNCHANGED <<oneShotPending, lastDraw>>

\* React renders the queued setLoading(true): the loading indicator
\* replaces the player
LoadingRender ==
    /\ loadingQueued
    /\ loadingQueued' = FALSE
    /\ loading' = TRUE
    /\ ev' = "other"
    /\ drewInHandler' = FALSE
    /\ preDrag' = <<>>
    /\ repAtPress' = FALSE
    /\ repUsed' = "none"
    /\ UNCHANGED <<dataVars, sessionVars, viewerVars, metadata, corners, confirmed, analysis, dataLoaded, showCourtTracking,
                   externalSeekSeconds, seekTimers, currentFrame, isPlayerPlaying,
                   container, moves, fault>>
    /\ UnmountPlayer

\* lines 310-315: the points of the serves after the first one
MappedPoints(serve_events) ==
    [i \in 1..Len(serve_events) - 1 |->
        [team |-> serve_events[i + 1].serving_team, time |-> serve_events[i + 1].timestamp]]

\* the analysis request settles (CsvModal.tsx lines 306-339): a response
\* stores the data; a failure runs the catch block, which ends loading at once
AnalysisResponse(ok) ==
    /\ analysis = "pending"
    /\ loading
    /\ analysis' = "settled"
    /\ dataLoaded' = (dataLoaded \/ ok)
    /\ IF ok
       THEN /\ points' = MappedPoints(serverData.serve_events)
            /\ ballTrackingData' = serverData.ball_detections
            /\ actionDetections' = serverData.action_detections
            /\ ball3dPositions' = serverData.ball_3d_positions
            /\ volleyballEvents' = serverData.volleyball_events
            /\ fps' = IF serverData.video_metadata # <<>>
                      THEN serverData.video_metadata[1].fps ELSE fps
            /\ showNetView' = TRUE
            /\ timelineItems' = RenderedTimeline(volleyballEvents', points', fps')
       ELSE UNCHANGED <<ballTrackingData, actionDetections, ball3dPositions, showNetView,
                        volleyballEvents, points, fps, timelineItems>>
    /\ ev' = "other"
    /\ drewInHandler' = FALSE
    /\ UNCHANGED <<sessionVars, viewerRest, serverData, showBallTracking, showBallHeight, metadata, corners, confirmed, loadingQueued, showCourtTracking,
                   externalSeekSeconds, seekTimers, currentFrame, isPlayerPlaying,
                   container, preDrag, repAtPress, repUsed, moves, fault>>
    /\ IF ok
       THEN UNCHANGED <<loading, playerVars, lastDraw>> \* container is in playerVars
       ELSE /\ loading' = FALSE
            /\ MountPlayer
    /\ AutoScrollEffect(ok)

\* the timer of the finally block (lines 336-338): setLoading(false)
LoadingDone ==
    /\ analysis = "settled"
    /\ analysis' = "idle"
    /\ ev' = "other"
    /\ drewInHandler' = FALSE
    /\ UNCHANGED <<dataVars, sessionVars, viewerVars, metadata, corners, confirmed, loadingQueued, dataLoaded,
                   showCourtTracking, externalSeekSeconds, seekTimers, currentFrame,
                   isPlayerPlaying, container, preDrag, repAtPress, repUsed, moves, fault>>
    /\ IF loading
       THEN /\ loading' = FALSE
            /\ MountPlayer
       ELSE UNCHANGED <<loading, draggingIdx, isPlaying, videoPaused, pos, frac, seekApplied, drawNames, seeking,
                        overlay, canvas, netView, loopPending, oneShotPending, lastDraw>>

(***************************************************************************)
(* Redraw scheduling (part_004, lines 770-778 and 796).                    *)
(***************************************************************************)
\* One animation frame: the browser runs the pending callbacks, the frames
\* requested at line 796 and then renderLoop, which requests the next frame.
\* After an unmount the refs are null and draw returns at line 531.
AnimationFrame ==
    /\ loopPending \/ oneShotPending
    /\ oneShotPending' = FALSE
    /\ ev' = "other"
    /\ drewInHandler' = TRUE
    /\ UNCHANGED <<dashVars, viewerVars, draggingIdx, isPlaying, videoPaused, pos, frac, seekApplied, drawNames, seeking, container,
                   loopPending, preDrag, repAtPress, repUsed, moves, fault>>
    /\ IF Mounted THEN DrawNow ELSE UNCHANGED <<canvas, netView, overlay, lastDraw>>

\* the layout gives the player's container a new size
ContainerResize(c) ==
    /\ c # container
    /\ container' = c
    /\ ev' = "other"
    /\ drewInHandler' = FALSE
    /\ UNCHANGED <<dashVars, viewerVars, draggingIdx, isPlaying, videoPaused, pos, frac, seekApplied, drawNames, seeking, overlay,
                   canvas, netView, loopPending, oneShotPending, lastDraw, preDrag, repAtPress,
                   repUsed, moves, fault>>

\* the court-tracking toggle (CsvModal.tsx line 477)
ToggleCourtTracking ==
    /\ showCourtTracking' = ~showCourtTracking
    /\ ev' = "other"
    /\ drewInHandler' = FALSE
    /\ UNCHANGED <<dataVars, sessionVars, viewerVars, metadata, corners, confirmed, loading, loadingQueued, analysis,
                   dataLoaded, externalSeekSeconds, seekTimers, currentFrame,
                   isPlayerPlaying, draggingIdx, isPlaying, videoPaused, container,
                   preDrag, repAtPress, repUsed, moves, fault>>
    /\ IF Mounted THEN AfterRender(TRUE, FALSE, FALSE)
       ELSE UNCHANGED <<pos, frac, seekApplied, drawNames, seeking, canvas, netView, overlay, lastDraw, oneShotPending, loopPending>>

\* the ball-tracking toggle (CsvModal.tsx line 478)
ToggleBallTracking ==
    /\ showBallTracking' = ~showBallTracking
    /\ ev' = "other"
    /\ drewInHandler' = FALSE
    /\ UNCHANGED <<sessionVars, viewerVars, serverData, ballTrackingData, actionDetections, ball3dPositions,
                   volleyballEvents, points, fps, timelineItems,
                   showNetView, showBallHeight, metadata, corners, confirmed, loading,
                   loadingQueued, analysis, dataLoaded, showCourtTracking,
                   externalSeekSeconds, seekTimers, currentFrame, isPlayerPlaying,
                   draggingIdx, isPlaying, videoPaused, container, preDrag, repAtPress,
                   repUsed, moves, fault>>
    /\ IF Mounted THEN AfterRender(TRUE, FALSE, FALSE)
       ELSE UNCHANGED <<pos, frac, seekApplied, drawNames, seeking, canvas, netView, overlay, lastDraw,
                        oneShotPending, loopPending>>

\* the ball-height toggle (CsvModal.tsx line 480)
ToggleBallHeight ==
    /\ showBallHeight' = ~showBallHeight
    /\ ev' = "other"
    /\ drewInHandler' = FALSE
    /\ UNCHANGED <<sessionVars, viewerVars, serverData, ballTrackingData, actionDetections, ball3dPositions,
                   volleyballEvents, points, fps, timelineItems,
                   showBallTracking, showNetView, metadata, corners, confirmed, loading,
                   loadingQueued, analysis, dataLoaded, showCourtTracking,
                   externalSeekSeconds, seekTimers, currentFrame, isPlayerPlaying,
                   draggingIdx, isPlaying, videoPaused, container, preDrag, repAtPress,
                   repUsed, moves, fault>>
    /\ IF Mounted THEN AfterRender(TRUE, FALSE, FALSE)
       ELSE UNCHANGED <<pos, frac, seekApplied, drawNames, seeking, canvas, netView, overlay, lastDraw,
                        oneShotPending, loopPending>>

\* the net-view toggle (CsvModal.tsx line 481): the render creates or removes
\* the net view's elements (part_004 line 936); showNetView is not among
\* draw's dependencies (line 676)
ToggleNetView ==
    /\ showNetView' = ~showNetView
    /\ ev' = "other"
    /\ drewInHandler' = FALSE
    /\ UNCHANGED <<sessionVars, viewerVars, serverData, ballTrackingData, actionDetections, ball3dPositions,
                   volleyballEvents, points, fps, timelineItems,
                   showBallTracking, showBallHeight, metadata, corners, confirmed, loading,
                   loadingQueued, analysis, dataLoaded, showCourtTracking,
                   externalSeekSeconds, seekTimers, currentFrame, isPlayerPlaying,
                   draggingIdx, isPlaying, videoPaused, container, loopPending, preDrag,
                   repAtPress, repUsed, moves, fault>>
    /\ IF Mounted
       THEN LET fires == /\ DashboardRenderChangesDraw
                         /\ SeekEffectFires(ExactFrame, externalSeekSeconds)
            IN  /\ pos' = IF fires THEN externalSeekSeconds ELSE pos
                /\ frac' = IF fires THEN 0 ELSE frac
                /\ SeekCount(fires)
                /\ drawNames' = IF DashboardRenderChangesDraw THEN playerNames' ELSE drawNames
                /\ seeking' = (seeking \/ fires)
                /\ IF fires
                   THEN LET r == Draw(metadata', container', corners', showCourtTracking',
                                      ExactFrame', canvas, overlay, DrawData', FreshNetView)
                        IN  /\ canvas' = r.canvas
                            /\ overlay' = r.overlay
                            /\ netView' = r.netView
                            /\ lastDraw' = r.last
                   ELSE /\ netView' = FreshNetView
                        /\ UNCHANGED <<canvas, overlay, lastDraw>>
                /\ oneShotPending' = (oneShotPending \/ DashboardRenderChangesDraw)
       ELSE UNCHANGED <<pos, frac, seekApplied, drawNames, seeking, canvas, netView, overlay, lastDraw,
                        oneShotPending>>

(***************************************************************************)
(* The media element's notifications (part_004, lines 731-768).            *)
(***************************************************************************)
\* handleCanPlay: setDuration, draw()
CanPlay ==
    /\ Mounted
    /\ ev' = "canplay"
    /\ drewInHandler' = TRUE
    /\ UNCHANGED <<dashVars, viewerVars, draggingIdx, isPlaying, videoPaused, pos, frac, seekApplied, drawNames, seeking, container,
                   loopPending, oneShotPending, preDrag, repAtPress, repUsed, moves, fault>>
    /\ DrawNow

\* faulty variant: handleTimeUpdate without its draw() call
TimeUpdateNoDraw ==
    /\ Mounted
    /\ currentFrame' = pos
    /\ ev' = "timeupdate"
    /\ drewInHandler' = FALSE
    /\ UNCHANGED <<dataVars, sessionVars, viewerRest, metadata, corners, confirmed, loading, loadingQueued, analysis,
                   dataLoaded, showCourtTracking, externalSeekSeconds, seekTimers,
                   isPlayerPlaying, draggingIdx, isPlaying, videoPaused, container,
                   preDrag, repAtPress, repUsed, moves, fault>>
    /\ AfterRender(currentFrame' # currentFrame /\ DashboardRenderChangesDraw, FALSE, FALSE)
    /\ AutoScrollEffect(currentFrame' # currentFrame)

\* handleTimeUpdate: setCurrentTime, onFrameChange(floor(currentTime * fps)),
\* draw(); a changed frame renders Dashboard
TimeUpdate ==
    /\ Mounted
    /\ currentFrame' = pos
    /\ ev' = "timeupdate"
    /\ drewInHandler' = TRUE
    /\ UNCHANGED <<dataVars, sessionVars, viewerRest, metadata, corners, confirmed, loading, loadingQueued, analysis,
                   dataLoaded, showCourtTracking, externalSeekSeconds, seekTimers,
                   isPlayerPlaying, draggingIdx, isPlaying, videoPaused, container,
                   preDrag, repAtPress, repUsed, moves, fault>>
    /\ AfterRender(currentFrame' # currentFrame /\ DashboardRenderChangesDraw, FALSE, TRUE)
    /\ AutoScrollEffect(currentFrame' # currentFrame)

\* the listener of "seeked" is draw itself (line 757)
Seeked ==
    /\ Mounted
    /\ seeking
    /\ seeking' = FALSE
    /\ ev' = "seeked"
    /\ drewInHandler' = TRUE
    /\ UNCHANGED <<dashVars, viewerVars, draggingIdx, isPlaying, videoPaused, pos, frac, seekApplied, drawNames, container,
                   loopPending, oneShotPending, preDrag, repAtPress, repUsed, moves, fault>>
    /\ DrawNow

\* the media starts playing; handlePlay: setIsPlaying(true),
\* onPlayStateChange(true).  The render restarts the loop (line 778).
Play ==
    /\ Mounted
    /\ videoPaused
    /\ videoPaused' = FALSE
    /\ isPlaying' = TRUE
    /\ isPlayerPlaying' = TRUE
    /\ ev' = "play"
    /\ drewInHandler' = FALSE
    /\ UNCHANGED <<dataVars, sessionVars, viewerRest, metadata, corners, confirmed, loading, loadingQueued, analysis,
                   dataLoaded, showCourtTracking, externalSeekSeconds, seekTimers,
                   currentFrame, draggingIdx, container, preDrag, repAtPress, repUsed,
                   moves, fault>>
    /\ AfterRender(~isPlayerPlaying /\ DashboardRenderChangesDraw, FALSE, FALSE)
    /\ AutoScrollEffect(~isPlayerPlaying)

\* the media stops; handlePause: setIsPlaying(false), onPlayStateChange(false)
Pause ==
    /\ Mounted
    /\ ~videoPaused
    /\ videoPaused' = TRUE
    /\ isPlaying' = FALSE
    /\ isPlayerPlaying' = FALSE
    /\ ev' = "pause"
    /\ drewInHandler' = FALSE
    /\ UNCHANGED <<dataVars, sessionVars, viewerRest, metadata, corners, confirmed, loading, loadingQueued, analysis,
                   dataLoaded, showCourtTracking, externalSeekSeconds, seekTimers,
                   currentFrame, draggingIdx, container, preDrag, repAtPress, repUsed,
                   moves, fault>>
    /\ AfterRender(isPlayerPlaying /\ DashboardRenderChangesDraw, FALSE, FALSE)
    /\ AutoScrollEffect(isPlayerPlaying)

\* playback advances the media position by one time unit
Tick ==
    /\ Mounted
    /\ ~videoPaused
    /\ pos < MaxTime
    /\ pos' = pos + 1
    /\ frac' = frac
    /\ seekApplied' = seekApplied
    /\ drawNames' = drawNames
    /\ ev' = "other"
    /\ drewInHandler' = FALSE
    /\ UNCHANGED <<dashVars, viewerVars, draggingIdx, isPlaying, videoPaused, seeking, container,
                   overlay, canvas, netView, loopPending, oneShotPending, lastDraw, preDrag,
                   repAtPress, repUsed, moves, fault>>

\* playback advances the media position inside the current frame
Drift ==
    /\ Mounted
    /\ ~videoPaused
    /\ frac < SubFrames - 1
    /\ frac' = frac + 1
    /\ seekApplied' = seekApplied
    /\ drawNames' = drawNames
    /\ ev' = "other"
    /\ drewInHandler' = FALSE
    /\ UNCHANGED <<dashVars, viewerVars, draggingIdx, isPlaying, videoPaused, pos, seeking, container,
                   overlay, canvas, netView, loopPending, oneShotPending, lastDraw,
                   preDrag, repAtPress, repUsed, moves, fault>>

\* handleTimelineChange (lines 811-817): the player's own slider
SliderSeek(t) ==
    /\ Mounted
    /\ Num(t) # ExactFrame
    /\ pos' = t
    /\ frac' = 0
    /\ seekApplied' = seekApplied
    /\ drawNames' = drawNames
    /\ seeking' = TRUE
    /\ ev' = "other"
    /\ drewInHandler' = FALSE
    /\ UNCHANGED <<dashVars, viewerVars, draggingIdx, isPlaying, videoPaused, container, overlay,
                   canvas, netView, loopPending, oneShotPending, lastDraw, preDrag, repAtPress,
                   repUsed, moves, fault>>

(***************************************************************************)
(* The external seek request (CsvModal.tsx lines 357-360, part_004 lines   *)
(* 787-794).                                                               *)
(***************************************************************************)
\* handleSeek(t): setExternalSeekSeconds(t) and the timer that clears it.
\* Setting the value it already has renders nothing.
SeekRequest(t) ==
    /\ seekTimers < MaxTimers
    /\ seekTimers' = seekTimers + 1
    /\ externalSeekSeconds' = t
    /\ ev' = "seekrequest"
    /\ drewInHandler' = FALSE
    /\ UNCHANGED <<dataVars, sessionVars, viewerVars, metadata, corners, confirmed, loading, loadingQueued, analysis,
                   dataLoaded, showCourtTracking, currentFrame, isPlayerPlaying,
                   draggingIdx, isPlaying, videoPaused, container, preDrag, repAtPress,
                   repUsed, moves, fault>>
    /\ IF Mounted /\ t # externalSeekSeconds
       THEN AfterRender(DashboardRenderChangesDraw, TRUE, FALSE)
       ELSE /\ SeekCount(FALSE)
            /\ UNCHANGED <<pos, frac, drawNames, seeking, canvas, netView, overlay, lastDraw,
                           oneShotPending, loopPending>>

\* the timer fires: setExternalSeekSeconds(null)
SeekClear ==
    /\ seekTimers > 0
    /\ seekTimers' = seekTimers - 1
    /\ externalSeekSeconds' = Null
    /\ ev' = "other"
    /\ drewInHandler' = FALSE
    /\ UNCHANGED <<dataVars, sessionVars, viewerVars, metadata, corners, confirmed, loading, loadingQueued, analysis,
                   dataLoaded, showCourtTracking, currentFrame, isPlayerPlaying,
                   draggingIdx, isPlaying, videoPaused, container, preDrag, repAtPress,
                   repUsed, moves, fault>>
    /\ IF Mounted /\ externalSeekSeconds # Null
       THEN AfterRender(DashboardRenderChangesDraw, TRUE, FALSE)
       ELSE /\ SeekCount(FALSE)
            /\ UNCHANGED <<pos, frac, drawNames, seeking, canvas, netView, overlay, lastDraw,
                           oneShotPending, loopPending>>

(***************************************************************************)
(* Inputs and specifications.                                              *)
(***************************************************************************)
\* the source's size in the explored inputs
SourceWidth == 8
SourceHeight == 4

Source == [width |-> SourceWidth, height |-> SourceHeight]

\* metadata as the local file gives it (CsvModal.tsx lines 227-234): the
\* decoded size, or zeros for a track the browser cannot decode
MetaChoices == {Source,
                [width |-> SourceWidth, height |-> 0],
                [width |-> 0, height |-> SourceHeight],
                [width |-> 0, height |-> 0]}

Box(w, h) == [w |-> w, h |-> h]

NormalizedCorners ==
    <<Pt(Rat(1, 10), Rat(1, 10)), Pt(Rat(9, 10), Rat(1, 10)),
      Pt(Rat(9, 10), Rat(9, 10)), Pt(Rat(1, 10), Rat(9, 10))>>

PixelCorners ==
    <<Pt(Num(2), Num(1)), Pt(Num(SourceWidth - 1), Num(1)),
      Pt(Num(SourceWidth - 1), Num(SourceHeight - 1)), Pt(Num(2), Num(SourceHeight - 1))>>

\* court_corners as the court-detection service may deliver them
Deliveries == {NormalizedCorners, PixelCorners, SubSeq(NormalizedCorners, 1, 3), <<>>}

Handles == 0..3

\* pointer offsets from the overlay's corner: left of it and on its top
\* edge, inside it, beyond its far corner
Pointers == {<<-1, 0>>, <<2, 1>>, <<MaxPointer, MaxPointer>>}

Times == 0..MaxTime

(***************************************************************************)
(* Rating an event (CsvModal.tsx, lines 422-433).                          *)
(***************************************************************************)
\* faulty variant: the event is found by its start frame alone
SetQualityByStartFrame(event, index, eventId, quality) ==
    IF event.start_frame = eventId[2]
    THEN [event EXCEPT !.quality = IF quality = JsNull THEN Undefined ELSE quality]
    ELSE event

\* lines 425-430, the callback of prev.map: the event whose id
\* evt-{start_frame}-{index} is eventId gets quality ?? undefined
SetQuality(event, index, eventId, quality) ==
    IF <<"evt", event.start_frame, index>> = eventId
    THEN [event EXCEPT !.quality = IF quality = JsNull THEN Undefined ELSE quality]
    ELSE event

\* handleEventQualityChange and the render that follows: EventViewer
\* recomputes its cards, draw keeps its identity
HandleEventQualityChange(eventId, quality) ==
    /\ volleyballEvents.supplied
    /\ volleyballEvents' =
           [volleyballEvents EXCEPT
               !.list = [i \in 1..Len(volleyballEvents.list) |->
                            SetQuality(volleyballEvents.list[i], i - 1, eventId, quality)]]
    /\ timelineItems' = RenderedTimeline(volleyballEvents', points, fps)
    /\ qualityReq' = <<[id |-> eventId, quality |-> quality,
                        before |-> volleyballEvents.list]>>
    /\ ev' = "other"
    /\ drewInHandler' = FALSE
    /\ UNCHANGED <<viewerRest, cornerSpace, playerNames, requestVars, serverData, ballTrackingData, actionDetections,
                   ball3dPositions, points, fps, showBallTracking, showNetView,
                   showBallHeight, metadata, corners, confirmed, loading, loadingQueued,
                   analysis, dataLoaded, showCourtTracking, externalSeekSeconds,
                   seekTimers, currentFrame, isPlayerPlaying, draggingIdx, isPlaying,
                   videoPaused, container, preDrag, repAtPress, repUsed, moves, fault>>
    /\ IF Mounted
       THEN AfterRender(DashboardRenderChangesDraw, FALSE, FALSE)
       ELSE UNCHANGED <<pos, frac, seekApplied, drawNames, seeking, canvas, netView, overlay, lastDraw,
                        oneShotPending, loopPending>>
    /\ AutoScrollEffect(TRUE)

(***************************************************************************)
(* The timeline's pointer handlers (EventViewer.tsx, lines 159-201).       *)
(***************************************************************************)
\* Math.abs(walk) > 5, in CSS px
DragThreshold == 5

\* the scroll container is rendered (CsvModal.tsx line 588, EventViewer.tsx
\* line 214)
TimelineRendered == volleyballEvents.supplied /\ timelineItems # <<>>

\* the card's timestamp, seconds, in the time units of the media position
SecondsToUnits(seconds) == Floor(Mul(seconds, Num(LocalFps)))

\* what the player does not see of a step of EventViewer
ViewerOnly ==
    /\ ev' = "other"
    /\ drewInHandler' = FALSE
    /\ UNCHANGED <<dashVars, playerVars, lastDraw, preDrag, repAtPress, repUsed, moves,
                   fault>>

\* handleMouseDown, on a press at x over the card at index target of the
\* timeline or, target 0, over no event card
TimelineMouseDown(x, target) ==
    /\ TimelineRendered
    /\ gesture = <<>>
    /\ target # 0 => timelineItems[target].type = "event"
    /\ isDown' = TRUE
    /\ isDragging' = FALSE
    /\ startX' = x
    /\ selectedEventId' = <<>>
    /\ gesture' = <<[card |-> IF target = 0 THEN <<>> ELSE timelineItems[target].id,
                    selected |-> selectedEventId, beyond |-> FALSE]>>
    /\ UNCHANGED <<resetTimers, lastClick>>
    /\ ViewerOnly
    /\ AutoScrollEffect(~isDown)

\* line 181: Math.abs(walk) > 5
ExceedsThreshold(x, from) == Abs(x - from) > DragThreshold

\* handleMouseMove, the pointer at x with the button held
TimelineMouseMove(x) ==
    /\ TimelineRendered
    /\ gesture # <<>>
    /\ gesture' = <<[gesture[1] EXCEPT !.beyond = @ \/ Abs(x - startX) > DragThreshold]>>
    /\ IF isDown /\ ExceedsThreshold(x, startX)
       THEN /\ isDragging' = TRUE
            /\ selectedEventId' = <<>>
       ELSE UNCHANGED <<isDragging, selectedEventId>>
    /\ UNCHANGED <<isDown, startX, resetTimers, lastClick, lastScroll>>
    /\ ViewerOnly

\* handleMouseLeave: the pointer leaves the timeline with the button held
TimelineMouseLeave ==
    /\ TimelineRendered
    /\ gesture # <<>>
    /\ isDown
    /\ isDown' = FALSE
    /\ UNCHANGED <<isDragging, startX, selectedEventId, resetTimers, gesture, lastClick>>
    /\ ViewerOnly
    /\ AutoScrollEffect(TRUE)

\* line 186: if (isDraggingRef.current) return
ClickHandled(dragging) == ~dragging

\* handleCardClick, lines 188-189: the updater of setSelectedEventId
ToggleSelected(prevId, id) == IF prevId = id THEN <<>> ELSE id

\* The button is released over the timeline: handleMouseUp, and then the
\* click the browser dispatches to the card when press and release were
\* over the same card (onCard), handleCardClick, which may call onSeek,
\* handleSeek of CsvModal.tsx lines 357-360.  The timer of handleMouseUp
\* runs in a later task.
TimelineMouseUp(onCard) ==
    /\ TimelineRendered
    /\ gesture # <<>>
    /\ resetTimers < MaxTimers
    /\ isDown' = FALSE
    /\ resetTimers' = resetTimers + 1
    /\ gesture' = <<>>
    /\ UNCHANGED <<startX, isDragging>>
    /\ ev' = "other"
    /\ drewInHandler' = FALSE
    /\ LET id      == gesture[1].card
           clicked == onCard /\ id # <<>> /\ \E i \in 1..Len(timelineItems) :
                                                 timelineItems[i].id = id
           card    == CHOOSE c \in {timelineItems[i] : i \in 1..Len(timelineItems)} :
                          c.id = id
           handled == clicked /\ ClickHandled(isDragging)
           seeks   == handled /\ selectedEventId # id
       IN  /\ seeks => seekTimers < MaxTimers
           /\ selectedEventId' =
                  IF handled THEN ToggleSelected(selectedEventId, id) ELSE selectedEventId
           /\ lastClick' =
                  IF clicked
                  THEN <<[card |-> id, selectedAtPress |-> gesture[1].selected,
                          beyond |-> gesture[1].beyond, selected |-> selectedEventId',
                          seeks |-> IF seeks THEN <<card.timestamp>> ELSE <<>>]>>
                  ELSE lastClick
           /\ IF seeks
              THEN /\ externalSeekSeconds' = SecondsToUnits(card.timestamp)
                   /\ seekTimers' = seekTimers + 1
                   /\ IF Mounted /\ externalSeekSeconds' # externalSeekSeconds
                      THEN AfterRender(DashboardRenderChangesDraw, TRUE, FALSE)
                      ELSE /\ SeekCount(FALSE)
                           /\ UNCHANGED <<pos, frac, drawNames, seeking, canvas, netView, overlay,
                                          lastDraw, oneShotPending, loopPending>>
              ELSE UNCHANGED <<externalSeekSeconds, seekTimers, pos, frac, seekApplied, drawNames, seeking, canvas,
                               netView, overlay, lastDraw, oneShotPending, loopPending>>
    /\ UNCHANGED <<dataVars, sessionVars, metadata, corners, confirmed, loading,
                   loadingQueued, analysis, dataLoaded, showCourtTracking, currentFrame,
                   isPlayerPlaying, draggingIdx, isPlaying, videoPaused, container,
                   preDrag, repAtPress, repUsed, moves, fault>>
    /\ AutoScrollEffect(isDown)

\* the button is released outside the timeline: no handler of EventViewer
\* runs and no card is clicked
ReleaseOutside ==
    /\ gesture # <<>>
    /\ ~isDown
    /\ gesture' = <<>>
    /\ UNCHANGED <<isDown, isDragging, startX, selectedEventId, resetTimers, lastClick,
                   lastScroll>>
    /\ ViewerOnly

\* the timer of handleMouseUp (line 175): isDraggingRef.current = false
DragResetTimer ==
    /\ resetTimers > 0
    /\ resetTimers' = resetTimers - 1
    /\ isDragging' = FALSE
    /\ UNCHANGED <<isDown, startX, selectedEventId, gesture, lastClick, lastScroll>>
    /\ ViewerOnly

\* a press outside every card and popup (lines 193-201), or the wheel over
\* the timeline (line 162): setSelectedEventId(null)
ClearSelection ==
    /\ TimelineRendered
    /\ gesture = <<>>
    /\ selectedEventId # <<>>
    /\ selectedEventId' = <<>>
    /\ UNCHANGED <<isDown, isDragging, startX, resetTimers, gesture, lastClick, lastScroll>>
    /\ ViewerOnly

(***************************************************************************)
(* Naming a player (CsvModal.tsx, lines 435-440).                          *)
(***************************************************************************)
\* handlePlayerNameChange and the render that follows.  playerNames is
\* not a dependency of draw (part_004 line 676).
HandlePlayerNameChange(playerId, newName) ==
    /\ playerNames' = (playerId :> newName) @@ playerNames
    /\ ev' = "rename"
    /\ drewInHandler' = FALSE
    /\ UNCHANGED <<dataVars, qualityReq, cornerSpace, requestVars, viewerVars, metadata, corners,
                   confirmed, loading, loadingQueued, analysis, dataLoaded,
                   showCourtTracking, externalSeekSeconds, seekTimers, currentFrame,
                   isPlayerPlaying, draggingIdx, isPlaying, videoPaused, container,
                   preDrag, repAtPress, repUsed, moves, fault>>
    /\ IF Mounted
       THEN AfterRender(DashboardRenderChangesDraw, FALSE, FALSE)
       ELSE UNCHANGED <<pos, frac, seekApplied, drawNames, seeking, canvas, netView,
                        overlay, lastDraw, oneShotPending, loopPending>>

\* lines 168-174; of the five settings the camera height is modelled
DefaultCameraSettings == [cameraHeight |-> Rat(7, 2)]

\* the coordinate space the player takes the corners to be in (line 692)
SpaceOf(cs) ==
    IF Len(cs) = 0 THEN "none" ELSE IF IsNormalized(cs) THEN "normalized" ELSE "pixel"

\* the Dashboard state added to the data: nothing has been asked for yet
InitSession ==
    /\ qualityReq = <<>>
    /\ cameraSettings = DefaultCameraSettings
    /\ sent = <<>>
    /\ inFlight = {}
    /\ succeeded = {}
    /\ loadingTimers = 0
    /\ storedFps = <<>>
    /\ playerNames = <<>>
    /\ cornerSpace = [delivered |-> SpaceOf(corners),
                      now |-> [i \in 1..Len(corners) |-> SpaceOf(corners)]]

\* EventViewer as it mounts (EventViewer.tsx lines 75-79)
InitViewer ==
    /\ isDown = FALSE
    /\ isDragging = FALSE
    /\ startX = 0
    /\ selectedEventId = <<>>
    /\ resetTimers = 0
    /\ gesture = <<>>
    /\ lastScroll = <<>>
    /\ lastClick = <<>>

\* an analysis result without detections
NoDetections == [ball_detections |-> <<>>, action_detections |-> <<>>,
                 ball_3d_positions |-> [supplied |-> TRUE, samples |-> <<>>],
                 volleyball_events |-> [supplied |-> TRUE, list |-> <<>>],
                 serve_events |-> <<>>, video_metadata |-> <<>>, player_tracks |-> <<>>]

\* the state once the court corners have arrived and the player has mounted
InitWith(metas, deliveries, containers, responses) ==
    /\ metadata \in metas
    /\ serverData \in responses
    /\ ballTrackingData = <<>>
    /\ actionDetections = <<>>
    /\ ball3dPositions = NotSupplied
    /\ showBallTracking = TRUE
    /\ showNetView = FALSE
    /\ showBallHeight = TRUE
    /\ volleyballEvents = NoEvents
    /\ points = <<>>
    /\ fps = LocalFps
    /\ timelineItems = <<>>
    /\ InitViewer
    /\ frac = 0
    /\ seekApplied = 0
    /\ drawNames = <<>>
    /\ netView = FreshNetView
    /\ corners \in deliveries
    /\ container \in containers
    /\ confirmed = FALSE
    /\ loading = FALSE
    /\ loadingQueued = FALSE
    /\ analysis = "idle"
    /\ dataLoaded = FALSE
    /\ showCourtTracking = TRUE
    /\ externalSeekSeconds = Null
    /\ seekTimers = 0
    /\ currentFrame = 0
    /\ isPlayerPlaying = FALSE
    /\ draggingIdx = Null
    /\ isPlaying = FALSE
    /\ videoPaused = TRUE
    /\ pos = 0
    /\ seeking = FALSE
    /\ overlay = UnstyledOverlay
    /\ canvas = BlankCanvas
    /\ loopPending = TRUE
    /\ oneShotPending = TRUE
    /\ lastDraw = NoDraw
    /\ ev = "other"
    /\ drewInHandler = FALSE
    /\ preDrag = <<>>
    /\ repAtPress = FALSE
    /\ repUsed = "none"
    /\ moves = 0
    /\ fault = FALSE
    /\ localMetaPending = FALSE
    /\ InitSession

Lifecycle ==
    \/ ConfirmClick
    \/ LoadingRender
    \/ \E ok \in BOOLEAN : AnalysisResponse(ok)
    \/ LoadingDone
    \/ AnimationFrame

\* the calibration handles: every handle, pointers inside and outside the
\* overlay, a source the browser decodes and one it cannot
Init == InitWith({Source, [width |-> 0, height |-> 0]}, {NormalizedCorners, PixelCorners},
                 {Box(SourceWidth, SourceHeight)}, {NoDetections})

Next ==
    \/ \E idx \in Handles : MouseDown(idx)
    \/ \E p \in Pointers : MouseMove(p)
    \/ MouseUp
    \/ Lifecycle

Spec == Init /\ [][Next]_vars

\* the redraw: every source size, delivery and container shape, the toggle
ContainerSides == {0, MaxContainer, SourceWidth}

AllContainers == {Box(w, h) : w \in ContainerSides, h \in ContainerSides}

\* normalized corners on the edges of the frame
UnitCorners == <<Pt(Num(0), Num(0)), Pt(Num(1), Num(0)), Pt(Num(1), Num(1)), Pt(Num(0), Num(1))>>

InitDraw == InitWith(MetaChoices, Deliveries \cup {UnitCorners},
                     {Box(SourceWidth, SourceHeight)}, {NoDetections})

NextDraw ==
    \/ \E c \in AllContainers : ContainerResize(c)
    \/ ToggleCourtTracking
    \/ Lifecycle

SpecDraw == InitDraw /\ [][NextDraw]_vars

\* the media element's notifications and the redraw scheduling
InitSched == InitWith({Source}, {NormalizedCorners}, {Box(SourceWidth, SourceHeight)}, {NoDetections})

NextSched ==
    \/ CanPlay
    \/ TimeUpdate
    \/ Seeked
    \/ Play
    \/ Pause
    \/ Tick
    \/ SliderSeek(MaxTime)
    \/ ToggleCourtTracking
    \/ Lifecycle

SpecSched == InitSched /\ [][NextSched]_vars

\* the external seek request against a playing or paused player
NextSeek ==
    \/ \E t \in Times : SeekRequest(t)
    \/ SeekClear
    \/ Play
    \/ Tick
    \/ TimeUpdate
    \/ Seeked
    \/ \E t \in {0, MaxTime} : SliderSeek(t)

SpecSeek == InitSched /\ [][NextSeek]_vars

\* the per-frame data: the state while the analysis request is pending, for
\* every analysis result explored
MaxData == 3

\* the box reported for frame f: a different one for every frame
BoxAt(f) == <<Num(f), Num(f + 1), Num(f + 3), Num(f + 5)>>

\* ball_detections: up to MaxData frames, each null or a box
BallTrackChoices ==
    UNION {{[i \in 1..n |-> IF i \in S THEN BoxAt(i - 1) ELSE <<>>] : S \in SUBSET (1..n)}
           : n \in 0..MaxData}

\* the k-th event of action_detections over frames a..b
EventAt(k, a, b) ==
    [action |-> IF k = 1 THEN "serve" ELSE "spike", start_frame |-> a, end_frame |-> b]

\* intervals inside the data, and one that ends before it starts
Intervals == {iv \in (0..MaxData - 1) \X (0..MaxData - 1) : iv[1] <= iv[2]}
                 \cup {<<MaxData - 1, MaxData - 2>>}

\* action_detections: up to 2 events, overlapping or not
ActionChoices ==
    {<<>>} \cup {<<EventAt(1, iv[1], iv[2])>> : iv \in Intervals}
           \cup {<<EventAt(1, iv[1], iv[2]), EventAt(2, jv[1], jv[2])>> :
                     iv \in Intervals, jv \in Intervals}

Supplied(samples) == [supplied |-> TRUE, samples |-> samples]

FrameResponses ==
    {[NoDetections EXCEPT !.ball_detections = bt] : bt \in BallTrackChoices}
    \cup {[NoDetections EXCEPT !.action_detections = acts] : acts \in ActionChoices}

InitAnalysing(responses) ==
    /\ metadata = Source
    /\ corners = NormalizedCorners
    /\ container = Box(SourceWidth, SourceHeight)
    /\ serverData \in responses
    /\ ballTrackingData = <<>>
    /\ actionDetections = <<>>
    /\ ball3dPositions = NotSupplied
    /\ showBallTracking = TRUE
    /\ showNetView = FALSE
    /\ showBallHeight = TRUE
    /\ volleyballEvents = NoEvents
    /\ points = <<>>
    /\ fps = LocalFps
    /\ timelineItems = <<>>
    /\ InitViewer
    /\ confirmed = TRUE
    /\ loading = TRUE
    /\ loadingQueued = FALSE
    /\ analysis = "pending"
    /\ dataLoaded = FALSE
    /\ showCourtTracking = TRUE
    /\ externalSeekSeconds = Null
    /\ seekTimers = 0
    /\ currentFrame = 0
    /\ isPlayerPlaying = FALSE
    /\ draggingIdx = Null
    /\ isPlaying = FALSE
    /\ videoPaused = TRUE
    /\ pos = 0
    /\ frac = 0
    /\ seekApplied = 0
    /\ drawNames = <<>>
    /\ seeking = FALSE
    /\ overlay = UnstyledOverlay
    /\ canvas = BlankCanvas
    /\ netView = FreshNetView
    /\ loopPending = FALSE
    /\ oneShotPending = TRUE
    /\ lastDraw = NoDraw
    /\ ev = "other"
    /\ drewInHandler = FALSE
    /\ preDrag = <<>>
    /\ repAtPress = FALSE
    /\ repUsed = "none"
    /\ moves = 0
    /\ fault = FALSE
    /\ localMetaPending = FALSE
    /\ InitSession

Playback ==
    \/ \E ok \in BOOLEAN : AnalysisResponse(ok)
    \/ LoadingDone
    \/ AnimationFrame
    \/ Play
    \/ Tick
    \/ Drift

\* the ball box and the current action
InitFrames == InitAnalysing(FrameResponses)

NextFrames ==
    \/ Playback
    \/ ToggleBallTracking

SpecFrames == InitFrames /\ [][NextFrames]_vars

\* the 3D sample reported for frame f: a different point for every frame
SampleAt(f) == <<Num(f + 1), Num(9 * f), Num(2 * f + 1)>>

\* a frame of ball_3d_positions: a point or null, and for every second frame
\* a triple of nulls as well
SampleChoices(f) ==
    {SampleAt(f), <<>>} \cup (IF f % 2 = 1 THEN {<<JsNull, JsNull, JsNull>>} ELSE {})

\* ball_3d_positions: up to MaxData frames
SampleSeqs ==
    UNION {{q \in [1..n -> UNION {SampleChoices(f) : f \in 0..n - 1}] :
               \A i \in 1..n : q[i] \in SampleChoices(i - 1)} : n \in 0..MaxData}

NetResponses ==
    {[NoDetections EXCEPT !.ball_3d_positions = b3] :
         b3 \in {NotSupplied} \cup {Supplied(q) : q \in SampleSeqs}}

\* the net view
InitNet == InitAnalysing(NetResponses)

NextNet ==
    \/ Playback
    \/ ToggleNetView
    \/ ToggleBallHeight

SpecNet == InitNet /\ [][NextNet]_vars

\* the event timeline: events and points of the analysis result
MaxEvents == 2

MaxPoints == 2

\* an event with none of the optional fields
PlainEvent(action, a, b) ==
    [action |-> action, start_frame |-> a, end_frame |-> b,
     ball_height_m |-> Undefined, block_height_m |-> Undefined, set_position |-> Undefined,
     quality |-> Undefined]

\* frames at which the events of the ordering cases start
StartFrames == {30, 60}

\* volleyball_events of the ordering cases: up to MaxEvents events in any order
EventLists ==
    UNION {[1..n -> {PlainEvent("serve", a, a + 15) : a \in StartFrames}] : n \in 0..MaxEvents}

\* serve_events: the first serve and up to MaxPoints serves after it, in
\* any order of their timestamps
ServeChoices == {[serving_team |-> t, timestamp |-> Num(ts)] : t \in {0, 1}, ts \in {1, 2}}

ServeLists ==
    {<<>>} \cup UNION {{<<[serving_team |-> 0, timestamp |-> Num(0)]>> \o q :
                           q \in [1..n -> ServeChoices]} : n \in 0..MaxPoints}

\* video_metadata: not in the response, or with its frame rate
MetadataChoices == {<<>>, <<[fps |-> 15]>>, <<[fps |-> 0]>>}

\* an optional field: not carried, zero, or the given value
FieldChoices(v) == {Undefined, Num(0), v}

\* one event for every action and every combination of optional fields
MetricEvents ==
    {[action |-> action, start_frame |-> 30, end_frame |-> 75,
      ball_height_m |-> ball, block_height_m |-> block, set_position |-> position,
      quality |-> Undefined] :
         action \in {"spike", "block", "set", "serve"},
         ball \in FieldChoices(Rat(5, 2)),
         block \in FieldChoices(Num(3)),
         position \in FieldChoices(Rat(1809, 400))}

TimelineResponses ==
    {[NoDetections EXCEPT !.volleyball_events = [supplied |-> TRUE, list |-> evs],
                          !.serve_events = serves,
                          !.video_metadata = vm] :
         evs \in EventLists, serves \in ServeLists, vm \in MetadataChoices}
    \cup {[NoDetections EXCEPT !.volleyball_events = [supplied |-> TRUE, list |-> <<e>>]] :
              e \in MetricEvents}
    \cup {[NoDetections EXCEPT !.volleyball_events = NoEvents]}

InitTimeline == InitAnalysing(TimelineResponses)

NextTimeline ==
    \/ \E ok \in BOOLEAN : AnalysisResponse(ok)
    \/ LoadingDone
    \/ AnimationFrame

SpecTimeline == InitTimeline /\ [][NextTimeline]_vars

(***************************************************************************)
(* Rating the events of the timeline.                                      *)
(***************************************************************************)
\* what the popup sends (EventViewer.tsx lines 302-325): a rating, here the
\* lowest one, which is falsy, and a middle one, or null from the clear button
Qualities == {Num(0), Num(2), JsNull}

\* the ids the handler is called with: those of every card an event list
\* of the bound can have, and an id of no event
EventIds ==
    {<<"evt", a, i>> : a \in StartFrames, i \in 0..(MaxEvents - 1)} \cup {<<"evt", 90, 0>>}

QualityResponses ==
    {[NoDetections EXCEPT !.volleyball_events = [supplied |-> TRUE, list |-> evs]] :
         evs \in EventLists}

InitQuality == InitAnalysing(QualityResponses)

NextQuality ==
    \/ \E ok \in BOOLEAN : AnalysisResponse(ok)
    \/ LoadingDone
    \/ AnimationFrame
    \/ \E id \in EventIds, q \in Qualities : HandleEventQualityChange(id, q)

SpecQuality == InitQuality /\ [][NextQuality]_vars

(***************************************************************************)
(* The timeline's cards under the pointer, and its auto-scroll.            *)
(***************************************************************************)
\* events inside the media positions explored, the second one starting
\* while the first one lasts
ViewerEventLists ==
    {<<PlainEvent("serve", 1, 2)>>,
     <<PlainEvent("serve", 1, 2), PlainEvent("spike", 2, 3)>>}

ViewerResponses ==
    {[NoDetections EXCEPT !.volleyball_events = [supplied |-> TRUE, list |-> evs]] :
         evs \in ViewerEventLists}

\* pointer positions of a press and of the moves after it (CSS px)
PressXs == {0, 1}

MoveXs == {0, DragThreshold, DragThreshold + 1}

\* presses, moves, releases and clicks on the cards of a loaded analysis
InitCards == InitAnalysing(ViewerResponses)

NextCards ==
    \/ AnalysisResponse(TRUE)
    \/ LoadingDone
    \/ \E x \in PressXs, target \in 0..Len(timelineItems) : TimelineMouseDown(x, target)
    \/ \E x \in MoveXs : TimelineMouseMove(x)
    \/ TimelineMouseLeave
    \/ \E onCard \in BOOLEAN : TimelineMouseUp(onCard)
    \/ ReleaseOutside
    \/ DragResetTimer
    \/ ClearSelection
    \/ SeekClear

SpecCards == InitCards /\ [][NextCards]_vars

\* playback across a court confirmation, with presses on the timeline
InitScroll == InitWith({Source}, {NormalizedCorners}, {Box(SourceWidth, SourceHeight)},
                       ViewerResponses)

NextScroll ==
    \/ Lifecycle
    \/ Play
    \/ Pause
    \/ Tick
    \/ TimeUpdate
    \/ TimelineMouseDown(0, 0)
    \/ TimelineMouseLeave
    \/ TimelineMouseUp(FALSE)
    \/ DragResetTimer

SpecScroll == InitScroll /\ [][NextScroll]_vars

\* a seek request from the timeline during playback, with the court toggle
InitReseek == InitAnalysing({NoDetections})

NextReseek ==
    \/ \E ok \in BOOLEAN : AnalysisResponse(ok)
    \/ LoadingDone
    \/ AnimationFrame
    \/ Play
    \/ Tick
    \/ TimeUpdate
    \/ volleyballEvents.supplied /\ \E t \in {0, MaxTime} : SeekRequest(t)
    \/ SeekClear
    \/ ToggleCourtTracking

SpecReseek == InitReseek /\ [][NextReseek]_vars

\* player tracks: one player in every frame, or two in every frame
PlayerIds == {7, 9}

TrackChoices ==
    {[f \in 0..MaxTime |-> <<[player_id |-> 7]>>],
     [f \in 0..MaxTime |-> <<[player_id |-> 9], [player_id |-> 7]>>]}

NameResponses == {[NoDetections EXCEPT !.player_tracks = tracks] : tracks \in TrackChoices}

\* the names typed into the statistics panel; the empty string is no name
NameChoices == {"", "Ann", "Bo"}

\* renaming players of a loaded analysis, paused and during playback
InitNames == InitAnalysing(NameResponses)

NextNames ==
    \/ \E ok \in BOOLEAN : AnalysisResponse(ok)
    \/ LoadingDone
    \/ AnimationFrame
    \/ Play
    \/ Pause
    \/ \E id \in PlayerIds, name \in NameChoices : HandlePlayerNameChange(id, name)
    \/ ToggleCourtTracking

SpecNames == InitNames /\ [][NextNames]_vars

(***************************************************************************)
(* The analysis requests, any number of them in flight (CsvModal.tsx,      *)
(* lines 219-237, 282-343 and 373-420).                                    *)
(***************************************************************************)
\* the response of the service to the request with this id, with or without
\* video_metadata: the events are those of that request's analysis
ResponseTo(id, vm) ==
    [NoDetections EXCEPT
        !.volleyball_events = [supplied |-> TRUE, list |-> <<PlainEvent("serve", id, id + 1)>>],
        !.video_metadata = vm]

\* The player after a render of Dashboard: the loading indicator replaces
\* it, it is mounted afresh, or it renders again (lines 503-547).
PlayerAfter(drawChanged) ==
    IF Mounted /\ ~Mounted'
    THEN /\ UnmountPlayer
         /\ preDrag' = <<>>
         /\ repAtPress' = FALSE
         /\ repUsed' = "none"
    ELSE IF ~Mounted /\ Mounted'
    THEN /\ MountPlayer
         /\ UNCHANGED <<preDrag, repAtPress, repUsed>>
    ELSE IF Mounted'
    THEN /\ AfterRender(drawChanged, FALSE, FALSE)
         /\ UNCHANGED <<draggingIdx, isPlaying, videoPaused, preDrag, repAtPress, repUsed>>
    ELSE UNCHANGED <<draggingIdx, isPlaying, videoPaused, pos, frac, seekApplied, drawNames,
                     seeking, canvas, overlay, netView, loopPending, oneShotPending,
                     lastDraw, preDrag, repAtPress, repUsed>>

\* lines 286-303 and 379-395: setLoading(true) and the request, which
\* carries the camera settings of the render that sends it
SendRequest(cause) ==
    /\ Len(sent) < MaxRequests
    /\ sent' = Append(sent, [cause |-> cause, settings |-> cameraSettings'])
    /\ inFlight' = inFlight \cup {Len(sent) + 1}
    /\ loading' = TRUE

\* what a step between the requests and the player leaves alone
RequestStepKeeps ==
    /\ ev' = "other"
    /\ drewInHandler' = FALSE
    /\ UNCHANGED <<qualityReq, cornerSpace, playerNames, viewerRest, corners, loadingQueued,
                   analysis, showCourtTracking, externalSeekSeconds, seekTimers,
                   currentFrame, isPlayerPlaying, showBallTracking, showBallHeight,
                   container, moves, fault>>

\* onloadedmetadata of the temporary video (lines 227-234): the decoded size
\* with fps: 30
LocalMetadataLoaded ==
    /\ localMetaPending
    /\ localMetaPending' = FALSE
    /\ fps' = LocalFps
    /\ timelineItems' = RenderedTimeline(volleyballEvents, points, fps')
    /\ UNCHANGED <<metadata, confirmed, loading, dataLoaded, serverData, ballTrackingData,
                   actionDetections, ball3dPositions, showNetView, volleyballEvents, points,
                   cameraSettings, sent, inFlight, succeeded, loadingTimers, storedFps>>
    /\ RequestStepKeeps
    /\ PlayerAfter(TRUE)
    /\ AutoScrollEffect(TRUE)

\* the Confirm Court Lines button (part_004 lines 926-929) and the analysis
\* effect that its render runs (lines 282-343)
ConfirmCourtLines ==
    /\ HandlesRendered
    /\ confirmed' = TRUE
    /\ UNCHANGED <<dataVars, metadata, dataLoaded, localMetaPending, cameraSettings,
                   succeeded, loadingTimers, storedFps, lastScroll>>
    /\ SendRequest("confirm")
    /\ RequestStepKeeps
    /\ PlayerAfter(DashboardRenderChangesDraw)

\* handleCameraSettingsChange (lines 373-375); cameraSettings is a dependency
\* of the analysis effect (line 343), which runs again once the court is
\* confirmed
HandleCameraSettingsChange(value) ==
    /\ cameraSettings' = [cameraSettings EXCEPT !.cameraHeight = value]
    /\ IF confirmed
       THEN SendRequest("settings")
       ELSE UNCHANGED <<sent, inFlight, loading>>
    /\ UNCHANGED <<dataVars, metadata, confirmed, dataLoaded, localMetaPending, succeeded,
                   loadingTimers, storedFps, lastScroll>>
    /\ RequestStepKeeps
    /\ PlayerAfter(DashboardRenderChangesDraw)

\* handleApplyCameraSettings (lines 377-395), the Apply button
HandleApplyCameraSettings ==
    /\ UNCHANGED <<dataVars, metadata, confirmed, dataLoaded, localMetaPending,
                   cameraSettings, succeeded, loadingTimers, storedFps, lastScroll>>
    /\ SendRequest("apply")
    /\ RequestStepKeeps
    /\ PlayerAfter(DashboardRenderChangesDraw)

\* The request with this id settles (lines 306-339 and 397-419): a response
\* stores its data, with the points only for a request of the effect; a
\* failure ends loading at once.  Both start the timer that ends loading.
RequestSettles(id, ok, vm) ==
    /\ id \in inFlight
    /\ inFlight' = inFlight \ {id}
    /\ loadingTimers' = loadingTimers + 1
    /\ IF ok
       THEN /\ serverData' = ResponseTo(id, vm)
            /\ dataLoaded' = TRUE
            /\ succeeded' = succeeded \cup {id}
            /\ points' = IF sent[id].cause = "apply" THEN points
                         ELSE MappedPoints(serverData'.serve_events)
            /\ ballTrackingData' = serverData'.ball_detections
            /\ actionDetections' = serverData'.action_detections
            /\ ball3dPositions' = serverData'.ball_3d_positions
            /\ volleyballEvents' = serverData'.volleyball_events
            /\ fps' = IF vm # <<>> THEN vm[1].fps ELSE fps
            /\ storedFps' = IF vm # <<>> THEN <<vm[1].fps>> ELSE storedFps
            /\ showNetView' = TRUE
            /\ timelineItems' = RenderedTimeline(volleyballEvents', points', fps')
            /\ UNCHANGED loading
       ELSE /\ loading' = FALSE
            /\ UNCHANGED <<dataVars, dataLoaded, succeeded, storedFps>>
    /\ UNCHANGED <<metadata, confirmed, localMetaPending, cameraSettings, sent>>
    /\ RequestStepKeeps
    /\ PlayerAfter(ok \/ DashboardRenderChangesDraw)
    /\ AutoScrollEffect(ok)

\* the timer of a finally block (lines 336-338 and 416-418)
LoadingTimer ==
    /\ loadingTimers > 0
    /\ loadingTimers' = loadingTimers - 1
    /\ loading' = FALSE
    /\ UNCHANGED <<dataVars, metadata, confirmed, dataLoaded, localMetaPending,
                   cameraSettings, sent, inFlight, succeeded, storedFps, lastScroll>>
    /\ RequestStepKeeps
    /\ PlayerAfter(DashboardRenderChangesDraw)

\* The corners have arrived and the court-detection indicator is gone; the
\* temporary video has not reported its metadata yet, so that Dashboard
\* shows "Initializing..." in place of the player.
InitRequests ==
    /\ metadata = Source
    /\ corners = NormalizedCorners
    /\ container = Box(SourceWidth, SourceHeight)
    /\ serverData = NoDetections
    /\ ballTrackingData = <<>>
    /\ actionDetections = <<>>
    /\ ball3dPositions = NotSupplied
    /\ showBallTracking = TRUE
    /\ showNetView = FALSE
    /\ showBallHeight = TRUE
    /\ volleyballEvents = NoEvents
    /\ points = <<>>
    /\ fps = Null
    /\ timelineItems = <<>>
    /\ InitViewer
    /\ confirmed = FALSE
    /\ loading = FALSE
    /\ loadingQueued = FALSE
    /\ analysis = "idle"
    /\ dataLoaded = FALSE
    /\ showCourtTracking = TRUE
    /\ externalSeekSeconds = Null
    /\ seekTimers = 0
    /\ currentFrame = 0
    /\ isPlayerPlaying = FALSE
    /\ draggingIdx = Null
    /\ isPlaying = FALSE
    /\ videoPaused = TRUE
    /\ pos = 0
    /\ frac = 0
    /\ seekApplied = 0
    /\ drawNames = <<>>
    /\ seeking = FALSE
    /\ overlay = UnstyledOverlay
    /\ canvas = BlankCanvas
    /\ netView = FreshNetView
    /\ loopPending = FALSE
    /\ oneShotPending = FALSE
    /\ lastDraw = NoDraw
    /\ ev = "other"
    /\ drewInHandler = FALSE
    /\ preDrag = <<>>
    /\ repAtPress = FALSE
    /\ repUsed = "none"
    /\ moves = 0
    /\ fault = FALSE
    /\ localMetaPending = TRUE
    /\ InitSession

\* the camera heights typed into the sidebar: the default and another one
CameraHeights == {Rat(7, 2), Num(4)}

\* video_metadata of a response: missing, or with the service's frame rate
ServiceMetadata == {<<>>, <<[fps |-> 15]>>}

NextRequests ==
    \/ LocalMetadataLoaded
    \/ ConfirmCourtLines
    \/ \E value \in CameraHeights : HandleCameraSettingsChange(value)
    \/ HandleApplyCameraSettings
    \/ \E id \in 1..MaxRequests, ok \in BOOLEAN, vm \in ServiceMetadata :
           RequestSettles(id, ok, vm)
    \/ LoadingTimer

SpecRequests == InitRequests /\ [][NextRequests]_vars

(***************************************************************************)
(* The calibration handles: properties of Spec.                            *)
(***************************************************************************)
\* v is a finite number in [lo, hi]
Within(v, lo, hi) == IsNum(v) /\ ~Lt(v, lo) /\ ~Lt(hi, v)

\* C1: while handle i is being dragged, whatever pointer-moves have been
\* handled, every entry of the corners other than entry i has exactly the
\* value it had when the handle was pressed, and the array keeps its 4 entries.
C1_OnlyDraggedIndexWritten ==
    draggingIdx # Null =>
        /\ Len(corners) = 4
        /\ \A j \in Handles \ {draggingIdx} : corners[j + 1] = preDrag[j + 1]

\* a drag of some handle that has moved the handle's corner twice
C1_Witness ==
    /\ draggingIdx # Null
    /\ moves >= 2
    /\ ev = "mousemove"
    /\ corners[draggingIdx + 1] # preDrag[draggingIdx + 1]

\* C2: once the court is confirmed, no press, move or release modifies the
\* corners again, whatever the controller was doing at the confirmation.
C2_FrozenOnceConfirmed == [][confirmed => corners' = corners]_vars

\* C3: every pointer-move of one drag writes its point in the
\* representation (normalized or pixel) the corners had at the press.
C3_RepresentationFixedPerDrag ==
    (draggingIdx # Null /\ repUsed # "none") => ((repUsed = "normalized") = repAtPress)

\* C4: the point a pointer-move has written lies in [0,1] x [0,1] when it
\* was written normalized and in [0,width] x [0,height] when written in pixels.
C4_WrittenPointInRange ==
    (ev = "mousemove" /\ draggingIdx # Null /\ repUsed # "none") =>
        LET pt == corners[draggingIdx + 1]
            hiX == IF repUsed = "normalized" THEN Num(1) ELSE Num(metadata.width)
            hiY == IF repUsed = "normalized" THEN Num(1) ELSE Num(metadata.height)
        IN  Within(pt[1], Num(0), hiX) /\ Within(pt[2], Num(0), hiY)

\* C5: a release during a drag leaves the controller Idle, and while the
\* controller is Idle no step modifies the corners.
C5_ReleaseEndsDrag ==
    /\ [](ev = "mouseup" => draggingIdx = Null)
    /\ [][draggingIdx = Null => corners' = corners]_vars

\* a release that ended a drag which had moved a corner
C5_Witness == ev = "mouseup" /\ draggingIdx = Null /\ moves > 0

(***************************************************************************)
(* The redraw: properties of SpecDraw.                                     *)
(***************************************************************************)
\* C6: with other than 4 corners the canvas carries no court polygon, no
\* handle or confirm button is rendered (so no drag and no confirmation
\* happens) and nothing throws; a polygon is on the canvas only when the
\* redraw that put it there saw court tracking enabled and 4 corners.
C6_MalformedCornersSuppressed ==
    /\ Len(corners) # 4 =>
           /\ canvas.polygon = <<>>
           /\ ~HandlesRendered
           /\ draggingIdx = Null
           /\ ~confirmed
           /\ ~fault
    /\ canvas.polygon # <<>> => (lastDraw.show /\ lastDraw.ncorners = 4)

\* a redraw that ran to its end with court tracking enabled and 3 corners
C6_Witness ==
    /\ Len(corners) = 3
    /\ lastDraw.outcome = "drawn"
    /\ lastDraw.show
    /\ lastDraw.ncorners = 3
    /\ canvas.drawn

\* C7: a redraw that was not skipped saw a container and a source with
\* non-zero sides, and its scale factors are numbers.
C7_ZeroSizesSkipped ==
    lastDraw.outcome = "drawn" =>
        /\ lastDraw.cw > 0 /\ lastDraw.ch > 0
        /\ lastDraw.mw > 0 /\ lastDraw.mh > 0
        /\ IsNum(lastDraw.scaleX) /\ IsNum(lastDraw.scaleY)

(***************************************************************************)
(* Redraw scheduling: properties of SpecSched.                             *)
(***************************************************************************)
\* C8: while the player is unmounted no callback it requested is pending.
C8_NothingPendingAfterTeardown == ~Mounted => (~loopPending /\ ~oneShotPending)

\* C9 as stated: each of timeupdate, seeked, canplay, play and pause has
\* redrawn in its own callback, so the canvas shows the media position.
C9_EveryNotificationRedraws ==
    ev \in {"timeupdate", "seeked", "canplay", "play", "pause"} =>
        (drewInHandler /\ canvas.drawn /\ canvas.frame = pos)

\* C9 amended: timeupdate, seeked and canplay have redrawn in their own
\* callback, so the canvas shows the media position; play and pause have
\* not called draw: they leave the render loop's frame pending, and the
\* redraw comes with that frame.
C9_PositionNotificationsRedraw ==
    /\ ev \in {"timeupdate", "seeked", "canplay"} =>
           (drewInHandler /\ canvas.drawn /\ canvas.frame = pos)
    /\ ev \in {"play", "pause"} => (~drewInHandler /\ loopPending)

\* play has been handled while the canvas still shows another position
C9_Witness == ev = "play" /\ canvas.drawn /\ canvas.frame # pos /\ loopPending

(***************************************************************************)
(* The external seek request: a property of SpecSeek.                      *)
(***************************************************************************)
\* C10: a seek request to T sets the position to T when the position is
\* more than the epsilon away from T, and leaves it unchanged otherwise.
C10_SeekIffBeyondEpsilon ==
    [][ev' = "seekrequest" =>
           IF Abs(pos - externalSeekSeconds') > SeekEpsilon
           THEN pos' = externalSeekSeconds'
           ELSE pos' = pos]_vars

(***************************************************************************)
(* The per-frame overlays: properties of SpecFrames.                       *)
(***************************************************************************)
\* the entries of the action data whose interval holds frame f
Covering(acts, f) ==
    {i \in DOMAIN acts : acts[i].start_frame <= f /\ f <= acts[i].end_frame}

Latest(S) == CHOOSE i \in S : \A j \in S : j <= i

\* C11 as stated: the lookup of a frame returns every event whose interval
\* holds the frame, and nothing for a frame outside all intervals.
C11_EveryCoveringEventReturned ==
    canvas.drawn =>
        LET covering == Covering(actionDetections, canvas.frame)
        IN  /\ \A i \in covering : canvas.action = <<actionDetections[i]>>
            /\ (covering = {} => canvas.action = <<>>)

\* C11, amended: the lookup of a frame inside some interval returns an event
\* whose interval holds the frame, which is event e for every frame of e that
\* no later event covers; the lookup of a frame outside all intervals
\* returns nothing.
C11_CoveredFramesFound ==
    canvas.drawn =>
        LET covering == Covering(actionDetections, canvas.frame)
        IN  /\ covering = {} <=> canvas.action = <<>>
            /\ covering # {} => \E i \in covering : canvas.action = <<actionDetections[i]>>
            /\ \A i \in covering :
                   (\A j \in covering : j <= i) => canvas.action = <<actionDetections[i]>>

\* the second frame of an event that a later event follows is drawn
C11_Witness ==
    /\ canvas.drawn
    /\ Len(actionDetections) = 2
    /\ canvas.frame > actionDetections[1].start_frame
    /\ canvas.action = <<actionDetections[1]>>

\* C12: at most one action is shown for a frame, and when several events
\* cover the frame it is the one that comes last in the array.
C12_LaterEventWins ==
    canvas.drawn =>
        LET covering == Covering(actionDetections, canvas.frame)
        IN  /\ Len(canvas.action) <= 1
            /\ Cardinality(covering) >= 2 =>
                   canvas.action = <<actionDetections[Latest(covering)]>>

\* a frame that both events cover is drawn
C12_Witness ==
    /\ canvas.drawn
    /\ Cardinality(Covering(actionDetections, canvas.frame)) = 2
    /\ canvas.action = <<actionDetections[2]>>

\* the ball box of frame f at the scale of the last redraw
StoredBox(f) == DrawBallBox(ballTrackingData[f + 1], lastDraw.scaleX, lastDraw.scaleY)

\* C13: with ball tracking enabled a redraw draws exactly the box stored for
\* the frame the media position lies in, wherever in the frame it lies and
\* whatever the next frame holds; it draws no box when that frame has no
\* entry or the toggle is off.
C13_BallBoxOfCurrentFrame ==
    (canvas.drawn /\ drewInHandler) =>
        LET f == Floor(ExactFrame)
            stored == f + 1 \in DOMAIN ballTrackingData /\ ballTrackingData[f + 1] # <<>>
        IN  /\ canvas.frame = f
            /\ canvas.ball = IF showBallTracking /\ stored THEN StoredBox(f) ELSE <<>>

\* a redraw inside a frame whose successor has a box of its own
C13_Witness ==
    /\ canvas.drawn
    /\ drewInHandler
    /\ frac > 0
    /\ pos + 2 \in DOMAIN ballTrackingData
    /\ ballTrackingData[pos + 2] # <<>>
    /\ canvas.ball # <<>>
    /\ canvas.ball = StoredBox(pos)
(***************************************************************************)
(* The net view: properties of SpecNet.                                    *)
(***************************************************************************)
\* the state right after a redraw of the mounted player
Redrawn == Mounted /\ drewInHandler /\ lastDraw.outcome = "drawn"

\* the sample of frame j: <<>> for null and for an index outside the array
SampleOf(j) == IF j + 1 \in DOMAIN ball3dPositions.samples
               THEN ball3dPositions.samples[j + 1] ELSE <<>>

\* a sample that is a point: three numbers
IsPoint(p) == Len(p) = 3 /\ \A k \in 1..3 : IsNum(p[k])

\* C14: at frame position i + t the point shown is
\* sample(i) + (sample(i+1) - sample(i)) * t on each of x, y, z when both
\* samples are points, which is sample(i) itself at t = 0; it is sample(i)
\* unchanged when sample i+1 is null or outside the array.
C14_PointInterpolated ==
    (Redrawn /\ ball3dPositions.supplied /\ showNetView /\ IsPoint(SampleOf(pos))) =>
        LET cur == SampleOf(pos)
            nxt == SampleOf(pos + 1)
        IN  IF IsPoint(nxt)
            THEN /\ \A k \in 1..3 :
                        Mul(Num(SubFrames), Sub(netView.point[k], cur[k]))
                            = Mul(Num(frac), Sub(nxt[k], cur[k]))
                 /\ frac = 0 => netView.point = cur
            ELSE netView.point = cur

\* a redraw strictly between two frames that both have a point
C14_Witness ==
    /\ Redrawn
    /\ ball3dPositions.supplied
    /\ showNetView
    /\ frac > 0
    /\ IsPoint(SampleOf(pos))
    /\ IsPoint(SampleOf(pos + 1))
    /\ netView.point # SampleOf(pos)
    /\ netView.point # SampleOf(pos + 1)

\* C15 as stated: after a redraw with the 3D positions supplied and the net
\* view shown, the marker and the height label are both visible if the
\* sample of the current frame is a point and both hidden if it is not.
C15_MarkerAndLabelFollowSample ==
    (Redrawn /\ ball3dPositions.supplied /\ showNetView) =>
        /\ netView.ball = 1 <=> IsPoint(SampleOf(pos))
        /\ netView.label = 1 <=> IsPoint(SampleOf(pos))

\* C15, amended: after such a redraw the marker is visible if and only if
\* the sample of the current frame is a point, whatever the next sample is,
\* and the height label is visible if and only if the sample is a point and
\* the ball-height toggle is on.
C15_MarkerFollowsSample ==
    (Redrawn /\ ball3dPositions.supplied /\ showNetView) =>
        /\ netView.ball = 1 <=> IsPoint(SampleOf(pos))
        /\ netView.label = 1 <=> (IsPoint(SampleOf(pos)) /\ showBallHeight)
        /\ netView.ball \in {0, 1}
        /\ netView.label \in {0, 1}

\* the marker and the label are shown on a frame that follows a frame
\* without a point
C15_Witness ==
    /\ Redrawn
    /\ ball3dPositions.supplied
    /\ showNetView
    /\ pos > 0
    /\ ~IsPoint(SampleOf(pos - 1))
    /\ IsPoint(SampleOf(pos))
    /\ netView.ball = 1
    /\ netView.label = 1
(***************************************************************************)
(* The letterbox fit and the court polygon: properties of SpecDraw.        *)
(***************************************************************************)
\* the overlay carries the geometry of the player's last redraw
Fitted == Mounted /\ overlay.styled /\ lastDraw.outcome = "drawn"

\* C16: the render rectangle of a redraw has the source's aspect ratio, fits
\* in the container the redraw found, equals it on the limiting axis and is
\* centred in it with offsets that are not negative; a redraw that finds the
\* container and the source of the redraw before it leaves the geometry as
\* it was.
C16_LetterboxFit ==
    /\ [](Fitted =>
            /\ Mul(overlay.w, Num(lastDraw.mh)) = Mul(overlay.h, Num(lastDraw.mw))
            /\ Within(overlay.w, Num(0), Num(lastDraw.cw))
            /\ Within(overlay.h, Num(0), Num(lastDraw.ch))
            /\ overlay.w = Num(lastDraw.cw) \/ overlay.h = Num(lastDraw.ch)
            /\ Within(overlay.left, Num(0), Num(lastDraw.cw))
            /\ Within(overlay.top, Num(0), Num(lastDraw.ch))
            /\ Add(Add(overlay.left, overlay.w), overlay.left) = Num(lastDraw.cw)
            /\ Add(Add(overlay.top, overlay.h), overlay.top) = Num(lastDraw.ch))
    /\ [][(/\ Fitted
           /\ Fitted'
           /\ lastDraw'.cw = lastDraw.cw
           /\ lastDraw'.ch = lastDraw.ch
           /\ lastDraw'.mw = lastDraw.mw
           /\ lastDraw'.mh = lastDraw.mh) => overlay' = overlay]_vars

\* a redraw in a container that is wider than the source: bars left and right
C16_Witness ==
    /\ Redrawn
    /\ overlay.h = Num(container.h)
    /\ Lt(overlay.w, Num(container.w))
    /\ Lt(Num(0), overlay.left)
    /\ Lt(Num(0), overlay.h)

\* every coordinate of the corners lies in [0, 1]
InUnitSquare(cs) ==
    \A i \in DOMAIN cs : Within(cs[i][1], Num(0), Num(1)) /\ Within(cs[i][2], Num(0), Num(1))

\* C17: after a redraw with normalized corners whose coordinates all lie in
\* [0, 1], every vertex of the polygon on the canvas lies inside the render
\* buffer, whatever the container's size and shape.
C17_VerticesInsideBuffer ==
    (Redrawn /\ Len(corners) = 4 /\ InUnitSquare(corners)) =>
        \A i \in DOMAIN canvas.polygon :
            /\ Within(canvas.polygon[i][1], Num(0), Num(canvas.width))
            /\ Within(canvas.polygon[i][2], Num(0), Num(canvas.height))

\* the polygon of the example corners drawn in a container that is not square
C17_Witness ==
    /\ Redrawn
    /\ corners = NormalizedCorners
    /\ container.w # container.h
    /\ Len(canvas.polygon) = 4
    /\ canvas.width > 0
    /\ canvas.height > 0
(***************************************************************************)
(* The event timeline: properties of SpecTimeline.                         *)
(***************************************************************************)
\* the places of the timeline that hold the card of event i
CardsOf(i) ==
    {j \in DOMAIN timelineItems :
        /\ timelineItems[j].type = "event"
        /\ timelineItems[j].id = <<"evt", volleyballEvents.list[i].start_frame, i - 1>>}

\* the places of the timeline that hold the divider of point k
DividersOf(k) ==
    {j \in DOMAIN timelineItems :
        /\ timelineItems[j].type = "point"
        /\ timelineItems[j].id = <<"point", k - 1>>}

\* C18: the timeline holds the card of every event and the divider of every
\* point exactly once and nothing else, an event's timestamp being
\* start_frame / fps and a divider's the point's time, and the timestamps do
\* not decrease from one item to the next.
C18_TimelineSortedPermutation ==
    volleyballEvents.supplied =>
        /\ Len(timelineItems) = Len(volleyballEvents.list) + Len(points)
        /\ \A i \in DOMAIN volleyballEvents.list :
               /\ Cardinality(CardsOf(i)) = 1
               /\ \A j \in CardsOf(i) :
                      timelineItems[j].timestamp
                          = Div(Num(volleyballEvents.list[i].start_frame), Num(FpsOr30(fps)))
        /\ \A k \in DOMAIN points :
               /\ Cardinality(DividersOf(k)) = 1
               /\ \A j \in DividersOf(k) : timelineItems[j].timestamp = points[k].time
        /\ \A j \in 1..Len(timelineItems) - 1 :
               ~Lt(timelineItems[j + 1].timestamp, timelineItems[j].timestamp)

\* two events that arrive in descending order and two points, a point first
\* in the timeline and an event last
C18_Witness ==
    /\ volleyballEvents.supplied
    /\ Len(volleyballEvents.list) = 2
    /\ Len(points) = 2
    /\ volleyballEvents.list[1].start_frame > volleyballEvents.list[2].start_frame
    /\ timelineItems[1].type = "point"
    /\ timelineItems[4].type = "event"
    /\ Lt(timelineItems[1].timestamp, timelineItems[4].timestamp)

\* C19: the divider of the k-th point carries the number of team-0 points
\* and the number of team-1 points among the first k points, whatever the
\* events are and wherever the divider stands in the timeline.
C19_RunningScore ==
    volleyballEvents.supplied =>
        \A k \in DOMAIN points :
            \A j \in DividersOf(k) :
                /\ timelineItems[j].scoreA
                       = Cardinality({m \in 1..k : points[m].team = 0})
                /\ timelineItems[j].scoreB
                       = Cardinality({m \in 1..k : points[m].team = 1})

\* a point of team 0 and then one of team 1 with an event between their
\* dividers: 1-0, the event, 1-1
C19_Witness ==
    /\ volleyballEvents.supplied
    /\ Len(points) = 2
    /\ points[1].team = 0
    /\ points[2].team = 1
    /\ \E j \in 1..Len(timelineItems) - 2 :
           /\ j \in DividersOf(1)
           /\ timelineItems[j + 1].type = "event"
           /\ j + 2 \in DividersOf(2)
           /\ timelineItems[j].scoreA = 1 /\ timelineItems[j].scoreB = 0
           /\ timelineItems[j + 2].scoreA = 1 /\ timelineItems[j + 2].scoreB = 1

\* the event carries the field
Carries(v) == v # Undefined

\* the secondary metric by the stated priority, a field existing whenever
\* the event carries it
StatedMetric(event) ==
    IF event.action = "spike" /\ Carries(event.ball_height_m) THEN "ball height"
    ELSE IF event.action = "block" /\ Carries(event.block_height_m) THEN "block height"
    ELSE IF event.action = "set" /\ Carries(event.ball_height_m) THEN "ball height"
    ELSE IF event.action = "set" /\ Carries(event.set_position) THEN "position"
    ELSE "duration"

\* C20: the card of every event shows the metric the priority gives: the ball
\* height of a spike that carries one, else the block height of a block that
\* carries one, else the ball height of a set that carries one, else the
\* position of a set that carries one, else the duration; a field that is
\* carried counts whatever its value.
C20_MetricPriority ==
    volleyballEvents.supplied =>
        \A i \in DOMAIN volleyballEvents.list :
            \A j \in CardsOf(i) :
                timelineItems[j].extraInfo.shows = StatedMetric(volleyballEvents.list[i])
(***************************************************************************)
(* Rating an event: properties of SpecQuality.                             *)
(***************************************************************************)
\* the index of the event the id names in the list, 0 when it names none
Addressed(list, id) ==
    IF \E i \in 1..Len(list) : <<"evt", list[i].start_frame, i - 1>> = id
    THEN CHOOSE i \in 1..Len(list) : <<"evt", list[i].start_frame, i - 1>> = id
    ELSE 0

\* C21: a quality change addressed to evt-{start_frame}-{index} sets (0..3)
\* or clears the quality of exactly the event at that index and leaves every
\* other event and every other field as they were; a clear leaves no
\* quality; an id that matches no event changes nothing.
C21_QualityOfAddressedEventOnly ==
    qualityReq # <<>> =>
        LET req == qualityReq[1]
            at  == Addressed(req.before, req.id)
            now == volleyballEvents.list
        IN  /\ Len(now) = Len(req.before)
            /\ \A i \in 1..Len(now) :
                   IF i = at
                   THEN /\ i - 1 = req.id[3]
                        /\ now[i] = [req.before[i] EXCEPT
                                        !.quality = IF req.quality = JsNull
                                                    THEN Undefined ELSE req.quality]
                        /\ req.quality = JsNull => now[i].quality = Undefined
                   ELSE now[i] = req.before[i]
            /\ at = 0 => now = req.before

\* an event rated 2 was cleared while another event starts at the same frame
C21_Witness ==
    /\ qualityReq # <<>>
    /\ qualityReq[1].quality = JsNull
    /\ Len(qualityReq[1].before) = 2
    /\ qualityReq[1].before[1].start_frame = qualityReq[1].before[2].start_frame
    /\ Addressed(qualityReq[1].before, qualityReq[1].id) = 2
    /\ qualityReq[1].before[2].quality = Num(2)
    /\ volleyballEvents.list[2].quality = Undefined

(***************************************************************************)
(* The timeline under the pointer: properties of SpecScroll and SpecCards.  *)
(***************************************************************************)
\* the event with this id has a card whose frames contain the frame
CardContains(id, frame) ==
    \E i \in 1..Len(timelineItems) :
        /\ timelineItems[i].type = "event"
        /\ timelineItems[i].id = id
        /\ timelineItems[i].frameId <= frame
        /\ frame <= timelineItems[i].endFrameId

\* C22: the timeline auto-scrolls only while the media is playing and no
\* press is held on the timeline, and only to a card whose frames contain
\* the current frame: never while paused, while the pointer is held down on
\* the timeline, or when no card contains the current frame.
C22_AutoScrollOnlyWhilePlaying ==
    lastScroll # <<>> =>
        /\ lastScroll[1].mediaPlaying
        /\ ~lastScroll[1].isDown
        /\ CardContains(lastScroll[1].card, lastScroll[1].frame)

\* the part of C22 that holds: no auto-scroll during a press on the
\* timeline, and none to a card that does not contain the current frame
C22_AutoScrollNeedsCardAndNoPress ==
    lastScroll # <<>> =>
        /\ ~lastScroll[1].isDown
        /\ CardContains(lastScroll[1].card, lastScroll[1].frame)

\* the gesture in progress is a drag only if the pointer went further than
\* the threshold from where it was pressed
DragOnlyBeyondThreshold ==
    (gesture # <<>> /\ isDown /\ isDragging) => gesture[1].beyond

\* the click after a press and release within the threshold selects the
\* card and seeks to it
ClickWithinThresholdSelects ==
    (lastClick # <<>> /\ ~lastClick[1].beyond) =>
        /\ lastClick[1].selected = lastClick[1].card
        /\ lastClick[1].seeks # <<>>

\* the click after a gesture that went beyond the threshold does nothing
ClickBeyondThresholdIgnored ==
    (lastClick # <<>> /\ lastClick[1].beyond) =>
        /\ lastClick[1].selected = <<>>
        /\ lastClick[1].seeks = <<>>

\* C23: a gesture on the timeline becomes a drag only once the pointer is
\* more than 5 px from the press; the click ending a press and release within
\* the threshold selects the card and seeks to it; the click ending a gesture
\* that went beyond the threshold selects nothing and issues no seek.
C23_DragThresholdSeparatesClicks ==
    /\ DragOnlyBeyondThreshold
    /\ ClickWithinThresholdSelects
    /\ ClickBeyondThresholdIgnored

\* the parts of C23 that hold
C23_DragAndPlainClick == DragOnlyBeyondThreshold /\ ClickWithinThresholdSelects

\* the timestamp of the card with this id
TimestampOf(id) ==
    (CHOOSE c \in {timelineItems[i] : i \in 1..Len(timelineItems)} : c.id = id).timestamp

\* a click on a card that was not selected when it was pressed selects it
\* and issues one seek, to its timestamp
ClickOnOtherCardSelects ==
    (/\ lastClick # <<>>
     /\ ~lastClick[1].beyond
     /\ lastClick[1].selectedAtPress # lastClick[1].card) =>
        /\ lastClick[1].selected = lastClick[1].card
        /\ lastClick[1].seeks = <<TimestampOf(lastClick[1].card)>>

\* a click on the card that was selected when it was pressed leaves no card
\* selected and issues no seek
ClickOnSelectedCardCloses ==
    (/\ lastClick # <<>>
     /\ ~lastClick[1].beyond
     /\ lastClick[1].selectedAtPress = lastClick[1].card) =>
        /\ lastClick[1].selected = <<>>
        /\ lastClick[1].seeks = <<>>

\* C26: a click (press, release, click within the drag threshold) on the
\* selected card closes its popup, leaves no card selected and issues no
\* seek; a click on a card that is not selected selects it and issues exactly
\* one seek, to its timestamp.
C26_ClickTogglesSelection ==
    /\ ClickOnSelectedCardCloses
    /\ ClickOnOtherCardSelects

(***************************************************************************)
(* The corners' coordinate space across drags: a property of Spec.         *)
(***************************************************************************)
\* C25: after any sequence of handle drags the four corners are all in the
\* coordinate space in which they were delivered, normalized or pixel: no
\* corner has been written in the other space.
C25_CornersKeepDeliveredSpace ==
    \A i \in 1..Len(cornerSpace.now) : cornerSpace.now[i] = cornerSpace.delivered

(***************************************************************************)
(* One seek per request: a property of SpecReseek.                         *)
(***************************************************************************)
\* C28: one seek request sets the media position at most once: after the
\* position has been set to T, playback followed by a toggle change, a corner
\* drag or new data, while the request value is still held, does not set the
\* position to T again.
C28_SeekAppliedOnce == seekApplied <= 1

(***************************************************************************)
(* The players' labels: a property of SpecNames.                           *)
(***************************************************************************)
\* C27: every redraw labels each player's box with the name the player has
\* at that moment, and with P{id} only when the player has no name: after a
\* rename no redraw uses the older name, even when nothing else changed.
C27_RedrawUsesCurrentNames ==
    (Redrawn /\ canvas.frame \in DOMAIN PlayerTracks) =>
        canvas.players = PlayerBoxes(PlayerTracks, canvas.frame, playerNames)

\* the labels of a redraw are those of the names its draw callback closes over
C27_RedrawUsesCapturedNames ==
    (Redrawn /\ canvas.frame \in DOMAIN PlayerTracks) =>
        canvas.players = PlayerBoxes(PlayerTracks, canvas.frame, drawNames)

(***************************************************************************)
(* The analysis requests: properties of SpecRequests.                      *)
(***************************************************************************)
\* C24: the metadata starts with fps = 30 when the local file's metadata
\* loads and takes the service's value when a response carries
\* video_metadata; once the service's value is stored, the default of 30
\* never replaces it, in whatever order the local callback and the responses
\* arrive.
C24_ServiceMetadataKept ==
    /\ (~localMetaPending /\ storedFps = <<>>) => fps = LocalFps
    /\ storedFps # <<>> => fps = storedFps[1]

\* the ids of the requests sent for this cause
SentFor(cause) == {i \in DOMAIN sent : sent[i].cause = cause}

\* C29: an analysis request is sent only when the court is confirmed, once,
\* and when the user presses Apply; a change of a camera setting by itself,
\* before or after the confirmation, sends no request.
C29_RequestsOnlyOnConfirmAndApply ==
    /\ SentFor("settings") = {}
    /\ Cardinality(SentFor("confirm")) <= 1

\* the part of C29 that holds: before the confirmation a change of a camera
\* setting sends nothing, and the confirmation sends one request
C29_NoRequestBeforeConfirmation ==
    /\ ~confirmed => SentFor("settings") = {} /\ SentFor("confirm") = {}
    /\ Cardinality(SentFor("confirm")) <= 1

\* the request sent last among those whose response was stored
LatestSucceeded == CHOOSE i \in succeeded : \A j \in succeeded : j <= i

\* C30: when analysis requests overlap, the data held once all of them have
\* settled are those of the request issued last, in whatever order the
\* responses arrived.
C30_LatestRequestWins ==
    (inFlight = {} /\ succeeded # {}) =>
        volleyballEvents = ResponseTo(LatestSucceeded, <<>>).volleyball_events

====
